---------------------------- MODULE Spec2Model ----------------------------
(***************************************************************************)
(* Recepcion Autopilot (WhatsApp intake bot): a model of the conversation  *)
(* session machine and of the case ledger mirror.                          *)
(*                                                                         *)
(* The revisions of the server are modelled side by side:                  *)
(*   - the "state-first" revision with the row-tracking case store         *)
(*     (src/unnamed/part_003, lines 514-1412): specifications Spec,        *)
(*     SpecRace (overlapping handlers) and SpecTime (time and retries);    *)
(*   - the prod-pack revision with the natural layer and the payment       *)
(*     reminder (src/recepcion-autopilot-prod-pack/server.cjs, lines       *)
(*     1-1267): specification SpecProd;                                    *)
(*   - the demo http server with the in-memory store                       *)
(*     (src/unnamed/part_002); its webhook routes and those of the         *)
(*     state-first revision make specification SpecHttp.                   *)
(*                                                                         *)
(* Further specifications run the same handlers over other inputs:         *)
(* SpecFlow (a long conversation of the state-first revision), SpecTwo     *)
(* (two senders), SpecLong (a long conversation of the prod-pack),         *)
(* SpecEither (one deployment of either revision), SpecOs (a conversation  *)
(* that gives an insurer name), SpecWait (the prod-pack with its payment   *)
(* request and its reminder callback suspended at their awaits), SpecPay   *)
(* (the demo server with the notifications of the payment provider), and   *)
(* SpecFn, which calls the helper functions of both revisions on their     *)
(* own.  The keyword front (src/unnamed/part_001: menu, lists matched by   *)
(* number or keyword) makes specification SpecCepa.                        *)
(*                                                                         *)
(* A text is a sequence of one-character strings, so that trimming,        *)
(* lower-casing, diacritic stripping and the regular expressions of the    *)
(* source are computed character by character.                             *)
(***************************************************************************)
EXTENDS Integers, Sequences, FiniteSets, TLC

-----------------------------------------------------------------------------
(* Characters and the JavaScript string primitives the handlers use.      *)

Digits == {"0", "1", "2", "3", "4", "5", "6", "7", "8", "9"}

UpperAscii == <<"A", "B", "C", "D", "E", "F", "G", "H", "I", "J", "K", "L", "M",
                "N", "O", "P", "Q", "R", "S", "T", "U", "V", "W", "X", "Y", "Z">>

LowerAscii == <<"a", "b", "c", "d", "e", "f", "g", "h", "i", "j", "k", "l", "m",
                "n", "o", "p", "q", "r", "s", "t", "u", "v", "w", "x", "y", "z">>

\* Precomposed accented letters of the copy and of user input: upper, lower
\* and the base letter left once NFD's combining mark is removed.
UpperAccented == <<"Á", "É", "Í", "Ó", "Ú", "Ñ">>

LowerAccented == <<"á", "é", "í", "ó", "ú", "ñ">>

BaseOfAccented == <<"a", "e", "i", "o", "u", "n">>

\* A free-standing combining mark (U+0301), written as a one-character text.
CombiningMark == "~acute~"

WhiteSpace == {" ", "\n", "\t"}

IndexIn(c, seq) == CHOOSE i \in 1..Len(seq) : seq[i] = c

InSeq(c, seq) == \E i \in 1..Len(seq) : seq[i] = c

\* \w of a JavaScript regular expression without the u flag: ASCII only.
IsWordChar(c) == c \in Digits \/ InSeq(c, UpperAscii) \/ InSeq(c, LowerAscii) \/ c = "_"

\* String.prototype.toLowerCase, one character.
toLowerCase(c) ==
  IF InSeq(c, UpperAscii) THEN LowerAscii[IndexIn(c, UpperAscii)]
  ELSE IF InSeq(c, UpperAccented) THEN LowerAccented[IndexIn(c, UpperAccented)]
  ELSE c

\* .normalize('NFD').replace(/[U+0300-U+036F]/g, ''), one character: the
\* characters it leaves behind (none for a combining mark).
stripDiacritics(c) ==
  IF c = CombiningMark THEN <<>>
  ELSE IF InSeq(c, LowerAccented) THEN <<BaseOfAccented[IndexIn(c, LowerAccented)]>>
  ELSE IF InSeq(c, UpperAccented)
       THEN <<UpperAscii[IndexIn(BaseOfAccented[IndexIn(c, UpperAccented)], LowerAscii)]>>
  ELSE <<c>>

RECURSIVE FlatMap(_, _)
FlatMap(F(_), s) == IF s = <<>> THEN <<>> ELSE F(Head(s)) \o FlatMap(F, Tail(s))

RECURSIVE trimStart(_)
trimStart(s) == IF s # <<>> /\ Head(s) \in WhiteSpace THEN trimStart(Tail(s)) ELSE s

RECURSIVE trimEnd(_)
trimEnd(s) ==
  IF s # <<>> /\ s[Len(s)] \in WhiteSpace THEN trimEnd(SubSeq(s, 1, Len(s) - 1)) ELSE s

\* String.prototype.trim
trim(s) == trimEnd(trimStart(s))

\* .toLowerCase().normalize('NFD').replace(/[U+0300-U+036F]/g, '')
lowerStrip(t) == FlatMap(stripDiacritics, [i \in 1..Len(t) |-> toLowerCase(t[i])])

\* normalize(s): trim, lower-case, NFD, strip the combining marks.
normalize(s) == lowerStrip(trim(s))

\* String.prototype.startsWith / includes
startsWith(s, p) == Len(p) <= Len(s) /\ SubSeq(s, 1, Len(p)) = p

includesAt(s, p, i) == i + Len(p) - 1 <= Len(s) /\ SubSeq(s, i, i + Len(p) - 1) = p

includes(s, p) == \E i \in 1..(Len(s) + 1) : includesAt(s, p, i)

\* raw.split('\n'): the lines of s.
RECURSIVE splitLines(_)
splitLines(s) ==
  IF \E i \in 1..Len(s) : s[i] = "\n"
  THEN LET i == CHOOSE j \in 1..Len(s) : s[j] = "\n" /\ \A k \in 1..(j - 1) : s[k] # "\n"
       IN <<SubSeq(s, 1, i - 1)>> \o splitLines(SubSeq(s, i + 1, Len(s)))
  ELSE <<s>>

\* raw.split('\n').map(trim).filter(Boolean)[0] || raw
firstLine(raw) ==
  LET ls == SelectSeq([i \in 1..Len(splitLines(raw)) |-> trim(splitLines(raw)[i])],
                      LAMBDA l : l # <<>>)
  IN IF ls # <<>> THEN ls[1] ELSE raw

\* A test for 10 digits or more where the source tests for 6.
isLongDigitStringOfTen(raw) == Len(raw) >= 10 /\ \A i \in 1..Len(raw) : raw[i] \in Digits

\* /^\d{6,}$/.test(raw)
isLongDigitString(raw) == Len(raw) >= 6 /\ \A i \in 1..Len(raw) : raw[i] \in Digits

\* A regular expression's \b at position i of s (between s[i-1] and s[i]).
wordBoundary(s, i) ==
  LET before == i > 1 /\ i - 1 <= Len(s) /\ IsWordChar(s[i - 1])
      after == i >= 1 /\ i <= Len(s) /\ IsWordChar(s[i])
  IN before # after

\* The labels of extractOpId's first pattern, in the order of its alternation.
OpLabels == << <<"i", "d">>, <<"o", "p">>,
               <<"o", "p", "e", "r", "a", "c", "i", "o", "n">>,
               <<"o", "p", "e", "r", "a", "c", "i", "ó", "n">> >>

\* [\s:#-]
OpSeparators == WhiteSpace \cup {":", "#", "-"}

\* Case-insensitive match of the literal p at position i of s.
matchesIgnoreCaseAt(s, p, i) ==
  /\ i + Len(p) - 1 <= Len(s)
  /\ \A k \in 1..Len(p) : toLowerCase(s[i + k - 1]) = p[k]

\* The first position at or after i whose character is not in the class.
RECURSIVE skipClass(_, _, _)
skipClass(s, i, class) ==
  IF i <= Len(s) /\ s[i] \in class THEN skipClass(s, i + 1, class) ELSE i

\* Group 2 of /\b(id|op|operacion|operación)\b[\s:#-]*([0-9]{6,})/i matched
\* at position i with the label p, or <<>> when the pattern does not match so.
labelledDigitsAt(s, p, i) ==
  IF /\ wordBoundary(s, i)
     /\ matchesIgnoreCaseAt(s, p, i)
     /\ wordBoundary(s, i + Len(p))
  THEN LET d == skipClass(s, i + Len(p), OpSeparators)
           e == skipClass(s, d, Digits)
       IN IF e - d >= 6 THEN SubSeq(s, d, e - 1) ELSE <<>>
  ELSE <<>>

\* Group 1 of /\b(\d{10,})\b/ matched at position i, or <<>>.
longDigitsAt(s, i) ==
  IF wordBoundary(s, i) /\ i <= Len(s) /\ s[i] \in Digits
  THEN LET e == skipClass(s, i, Digits)
       IN IF e - i >= 10 /\ wordBoundary(s, e) THEN SubSeq(s, i, e - 1) ELSE <<>>
  ELSE <<>>

\* extractOpId(text): the labelled operation id, else a standalone run of at
\* least 10 digits, else ''.
extractOpId(text) ==
  LET hits == {<<i, l>> \in (1..Len(text)) \X (1..Len(OpLabels)) :
                 labelledDigitsAt(text, OpLabels[l], i) # <<>>}
      longs == {i \in 1..Len(text) : longDigitsAt(text, i) # <<>>}
  IN IF hits # {}
     THEN LET h == CHOOSE x \in hits :
                     \A y \in hits : x[1] < y[1] \/ (x[1] = y[1] /\ x[2] <= y[2])
          IN labelledDigitsAt(text, OpLabels[h[2]], h[1])
     ELSE IF longs # {}
          THEN longDigitsAt(text, CHOOSE i \in longs : \A j \in longs : i <= j)
          ELSE <<>>

-----------------------------------------------------------------------------
(* Bounds of the model and the inputs drawn from them.                    *)

\* Distinct inbound messages (message ids) over one run.
MaxMsgs == 6

\* Messages of a conversation whose handlers may overlap.
MaxRaceMsgs == 3

\* Messages of a conversation over time.
MaxTimeMsgs == 2

\* The end of the clock, in ticks.
MaxNow == 121

\* Messages of a conversation with the prod-pack revision.
MaxProdMsgs == 6

\* The end of the clock for the prod-pack revision, in ticks.
MaxProdNow == 180

\* Messages delivered over the webhook routes of the state-first and demo
\* revisions together.
MaxHttpMsgs == 4

\* Messages delivered over one long conversation with the state-first
\* revision.
MaxFlowMsgs == 9

\* The length of the texts given to normalize.
MaxTextLen == 3

\* Messages delivered by two senders together.
MaxTwoMsgs == 4

\* Messages delivered over one long conversation with the prod-pack
\* revision.
MaxLongMsgs == 11

\* Messages of a conversation that gives an insurer name.
MaxOsMsgs == 5

\* Messages of a prod-pack conversation whose payment request and reminder
\* callback may stay suspended, and the time it runs for, in ticks.
MaxWaitMsgs == 6

MaxWaitNow == 240

\* Messages delivered to the keyword front over one run.
MaxCepaMsgs == 4

\* Messages of a conversation with the demo server that books twice.
MaxPayMsgs == 13

\* Deliveries that arrive while another handler is suspended, over one run.
MaxOverlaps == 1

\* Spreadsheet API calls that fail over one run.
MaxSheetFailures == 1

\* One tick of the clock: 30 seconds, in milliseconds.
TickMs == 30 * 1000

\* The time that passes in one step, in ticks: ten minutes (SEEN_TTL_MS),
\* an hour (SESSION_TTL_MS), and an hour and a tick.
Durations == {20, 120, 121}

Senders == {"54900", "54911"}

TxtZero == <<"0">>

TxtOne == <<"1">>

TxtTwo == <<"2">>

TxtFive == <<"5">>

TxtListo == <<"L", "I", "S", "T", "O">>

TxtHola == <<"h", "o", "l", "a">>

TxtOsde == <<"O", "S", "D", "E">>

TxtOpId == <<"I", "D", " ", "1", "2", "3", "4", "5", "6", "7", "8", "9">>

\* 'token 123 dni 30111222'
TxtToken == << "t", "o", "k", "e", "n", " ", "1", "2", "3", " ", "d", "n", "i", " ", "3", "0", "1", "1", "1", "2", "2", "2" >>

\* The texts of a conversation over time
TimeTexts == {TxtOne, TxtListo, TxtHola}

TxtGracias == <<"G", "r", "a", "c", "i", "a", "s">>

TxtRecepcion == <<"r", "e", "c", "e", "p", "c", "i", "ó", "n">>

\* The texts of a conversation with the prod-pack revision
ProdTexts == {TxtZero, TxtOne, TxtTwo, TxtListo, TxtHola, TxtGracias, TxtRecepcion, TxtOpId,
              TxtOsde, TxtToken}

\* The time that passes in one step for the prod-pack revision: half an
\* hour, and an hour (PAYMENT_WINDOW_MS, SESSION_TTL_MS).
ProdDurations == {60, 120}

\* The texts a sender may write.
Texts == {TxtZero, TxtOne, TxtTwo, TxtFive, TxtListo, TxtHola, TxtOsde, TxtOpId}

-----------------------------------------------------------------------------
(* JavaScript objects and Maps.  An object is a function from its own     *)
(* keys; a Map is a function from the keys it holds.  Every read of a     *)
(* field in the handlers goes through `|| default`, so undefined and ''   *)
(* are one falsy value: "" for a field holding a literal of the source,   *)
(* <<>> for a field holding text typed by the user.                       *)

LiteralKeys == {"flow", "patientType", "mpLink",
                "flow_type", "patient_type", "payment_link", "status"}

Falsy(k) == IF k \in LiteralKeys THEN "" ELSE <<>>

\* obj[k], undefined when obj has no own key k
Get(obj, k) == IF k \in DOMAIN obj THEN obj[k] ELSE Falsy(k)

\* { ...a, ...b }
Spread(a, b) ==
  [k \in DOMAIN a \cup DOMAIN b |-> IF k \in DOMAIN b THEN b[k] ELSE a[k]]

\* {}
EmptyObj == [k \in {} |-> ""]

\* Map.prototype.set
MapSet(m, k, v) == [x \in DOMAIN m \cup {k} |-> IF x = k THEN v ELSE m[x]]

\* Map.prototype.delete, for every key of ks
MapDelete(m, ks) == [x \in DOMAIN m \ ks |-> m[x]]

\* 'Turno' and 'Estudios', the service labels of the menu
LabelTurno == <<"T", "u", "r", "n", "o">>

LabelEstudios == <<"E", "s", "t", "u", "d", "i", "o", "s">>

-----------------------------------------------------------------------------
(* State.                                                                 *)

VARIABLES
  now,          \* Date.now(), in ticks
  env,          \* process.env: which collaborators are configured
  sessions,     \* Map waId -> { state, ctx, updatedAt }
  caseStore,    \* Map waId -> { caseId, row, data }
  sheetCases,   \* the rows of the spreadsheet's cases tab, by row number
  seenMsg,      \* Map msgId -> ts
  tasks,        \* the handler executions suspended at an await, oldest first
  idCount,      \* per sender, how many case ids makeId('CASE') has drawn
  nextMsg,      \* how many distinct messages the provider has delivered
  mpPrefs,      \* payment provider: case ids with a created preference
  mpPaid,       \* payment provider: case ids with an approved deposit payment
  sheetFailures, \* how many spreadsheet API calls have failed
  overlaps,     \* how many deliveries arrived while a handler was suspended
  done,         \* what the handler execution that ended in the last step did
  returned,     \* per sender, every case id handed to a handler
  redeliverable, \* provider: the messages it may deliver again, with the
                \* time their last processed delivery arrived
  lastDelivery, \* the most recent webhook delivery
  psessions,    \* prod-pack: Map waId -> { state, context, updatedAt }
  timers,       \* prod-pack: the pending setTimeout timers of the reminder
  timerCount,   \* prod-pack: how many timers setTimeout has created
  caseByWa,     \* prod-pack: Map waId -> case id
  lastRow,      \* prod-pack: per sender, the last row handed to the cases sheet,
                \* and how many rows the sheet holds for the sender
  pdone,        \* prod-pack: what the handler or callback of the last step did
  pwait,        \* prod-pack: the handler or callback suspended at an await
  reminders,    \* prod-pack: per sender, the reminders sent during the current
                \* stay of the session in awaiting_payment
  henv,         \* process.env of the web front: verify token and app secret
  conversations, \* demo server: store.conversations, phone -> { state, last_intent }
  appointments, \* demo server: store.appointments, newest first
  handoffs,     \* demo server: how many entries store.handoffs holds
  hdone,        \* the last HTTP exchange on a webhook route, and what it did
  call,         \* the last call of a helper function: its arguments and result
  csessions,    \* keyword front: Map waId -> { state, intent, lastLabel }
  cdone         \* keyword front: what the handler of the last message did

\* The state of the state-first revision
firstVars == <<sessions, caseStore, sheetCases, seenMsg, tasks, idCount, sheetFailures,
               overlaps, mpPrefs, mpPaid, done, returned, redeliverable, lastDelivery>>

\* The state of the prod-pack revision
prodVars == <<psessions, timers, timerCount, caseByWa, lastRow, pdone, pwait, reminders>>

\* The state of the web front and of the demo server
httpVars == <<henv, conversations, appointments, handoffs, hdone>>

\* The state of the keyword front (menu and keyword matching, no ledger)
cepaVars == <<csessions, cdone>>

vars == <<now, env, nextMsg, firstVars, prodVars, httpVars, call, cepaVars>>

\* getSession(waId) of the keyword front for a sender with no entry
NoCepaSession == [state |-> "menu", intent |-> "", lastLabel |-> <<>>]

NoCepaDone ==
  [wa |-> "", kind |-> "none", text |-> <<>>, s |-> NoCepaSession, sent |-> <<>>,
   notified |-> <<>>]

-----------------------------------------------------------------------------
(* Sessions (state-first revision).                                       *)

\* const SESSION_TTL_MS = 60 * 60 * 1000
SESSION_TTL_MS == 60 * 60 * 1000

\* const SEEN_TTL_MS = 10 * 60 * 1000
SEEN_TTL_MS == 10 * 60 * 1000

\* A getSession without its default: an absent session has no state.
getSessionNoDefault(sess, waId, t) ==
  IF waId \in DOMAIN sess
  THEN sess[waId]
  ELSE [state |-> "", ctx |-> EmptyObj, updatedAt |-> t]

\* getSession(waId): the stored session, whatever its age, or a fresh default
getSession(sess, waId, t) ==
  IF waId \in DOMAIN sess
  THEN sess[waId]
  ELSE [state |-> "menu", ctx |-> EmptyObj, updatedAt |-> t]

\* A setSession that keeps one session for all senders, under the key of
\* the first of them.
setSessionOneKey(sess, waId, state, ctxPatch, t) ==
  MapSet(sess, "54900", [state |-> state,
                         ctx |-> Spread(getSession(sess, "54900", t).ctx, ctxPatch),
                         updatedAt |-> t])

\* setSession(waId, state, ctxPatch)
setSession(sess, waId, state, ctxPatch, t) ==
  MapSet(sess, waId, [state |-> state,
                      ctx |-> Spread(getSession(sess, waId, t).ctx, ctxPatch),
                      updatedAt |-> t])

\* resetSession(waId)
resetSession(sess, waId, t) ==
  MapSet(sess, waId, [state |-> "menu", ctx |-> EmptyObj, updatedAt |-> t])

\* A session sweep that also deletes an entry exactly SESSION_TTL_MS old
sessionExpiredEarly(updatedAt, t) == (t - updatedAt) * TickMs >= SESSION_TTL_MS

\* The test of the session sweep: !s?.updatedAt || now - s.updatedAt > SESSION_TTL_MS
sessionExpired(updatedAt, t) == (t - updatedAt) * TickMs > SESSION_TTL_MS

\* A dedup sweep that also deletes an entry exactly SEEN_TTL_MS old
seenExpiredEarly(ts, t) == (t - ts) * TickMs >= SEEN_TTL_MS

\* The test of the dedup sweep: !ts || now - ts > SEEN_TTL_MS
seenExpired(ts, t) == (t - ts) * TickMs > SEEN_TTL_MS

-----------------------------------------------------------------------------
(* Case ledger (state-first revision).  The columns created_at,           *)
(* deposit_amount, last_message and updated_at are left out: no handler   *)
(* reads them back.                                                       *)

\* buildCaseRow(waId, caseId, data)
buildCaseRow(waId, caseId, data) ==
  [case_id |-> caseId,
   wa_from |-> waId,
   flow_type |-> IF Get(data, "flow_type") # "" THEN Get(data, "flow_type") ELSE "whatsapp",
   patient_type |-> Get(data, "patient_type"),
   os_name |-> Get(data, "os_name"),
   os_token |-> Get(data, "os_token"),
   service_label |-> Get(data, "service_label"),
   payment_link |-> Get(data, "payment_link"),
   payment_op_id |-> Get(data, "payment_op_id"),
   status |-> IF Get(data, "status") # "" THEN Get(data, "status") ELSE "lead"]

\* makeId('CASE'): the k-th id drawn for a sender (time stamp and random
\* bytes make every drawn id new)
makeCaseId(waId, k) == <<waId, k>>

\* The sheet helpers without their try/catch: a failure leaves the caller.
sheetResultThrows(outcome) == IF outcome = "ok" THEN "ok" ELSE "throw"

\* What the try/catch of sheetAppendWithRow, sheetAppend and sheetUpdate makes
\* of the API call's outcome: a failure is logged and returned as ok: false.
sheetResult(outcome) == IF outcome = "ok" THEN "ok" ELSE "not_ok"

-----------------------------------------------------------------------------
(* The handler of the state-first revision as a program: the awaited      *)
(* calls and the synchronous session writes of the branch taken, in       *)
(* source order.                                                          *)

Upsert(patch) == [op |-> "upsert", patch |-> patch]

LogEvent(type) == [op |-> "logEvent", type |-> type]

CreateMp(patientType) == [op |-> "mp", patientType |-> patientType]

Send(msg) == [op |-> "send", msg |-> msg]

SetS(state, ctxPatch) == [op |-> "setSession", state |-> state, patch |-> ctxPatch]

ResetS == [op |-> "resetSession"]

GetOrCreate == [op |-> "getOrCreate"]

KwListo == <<"l", "i", "s", "t", "o">>

KwOk == <<"o", "k">>

KwDale == <<"d", "a", "l", "e">>

KwYa == <<"y", "a">>

KwMenu == <<"m", "e", "n", "u">>

KwInicio == <<"i", "n", "i", "c", "i", "o">>

KwObra == <<"o", "b", "r", "a">>

KwPrepaga == <<"p", "r", "e", "p", "a", "g", "a">>

KwOsde == <<"o", "s", "d", "e">>

KwSwiss == <<"s", "w", "i", "s", "s">>

KwRecep == <<"r", "e", "c", "e", "p">>

KwHumano == <<"h", "u", "m", "a", "n", "o">>

\* s.ctx.flow || 'turno'
flowOr(ctx) == IF Get(ctx, "flow") # "" THEN Get(ctx, "flow") ELSE "turno"

\* s.ctx.label || 'Turno'
labelOr(ctx) == IF Get(ctx, "label") # <<>> THEN Get(ctx, "label") ELSE LabelTurno

\* handleUserText, branch awaiting_mrturno_done
onAwaitingMrturno(s, norm) ==
  IF norm \in {KwListo, KwOk, KwDale, KwYa}
  THEN << SetS("ask_patient_type",
               [flow |-> Get(s.ctx, "flow"), label |-> Get(s.ctx, "label")]),
          Upsert([flow_type |-> Get(s.ctx, "flow"), service_label |-> Get(s.ctx, "label"),
                  status |-> "awaiting_patient_type"]),
          LogEvent("state"),
          Send("patientTypePrompt") >>
  ELSE << Upsert([flow_type |-> Get(s.ctx, "flow"), service_label |-> Get(s.ctx, "label"),
                  status |-> "awaiting_mrturno"]),
          Send("writeListo") >>

\* handleUserText, branch ask_patient_type
onAskPatientType(s, norm) ==
  IF norm = <<"1">>
  THEN << Upsert([flow_type |-> flowOr(s.ctx), patient_type |-> "particular",
                  service_label |-> labelOr(s.ctx), status |-> "awaiting_payment"]),
          CreateMp("particular") >>
  ELSE IF norm = <<"2">>
  THEN << SetS("ask_os_name",
               [flow |-> Get(s.ctx, "flow"), label |-> Get(s.ctx, "label"),
                patientType |-> "obra_social"]),
          Upsert([flow_type |-> Get(s.ctx, "flow"), patient_type |-> "obra_social",
                  service_label |-> Get(s.ctx, "label"), status |-> "awaiting_os_name"]),
          Send("askOsNameText") >>
  ELSE << Send("answer1or2") >>

\* handleUserText, branch ask_os_name
onAskOsName(s, raw) ==
  IF isLongDigitString(raw)
  THEN << Send("askOsNameAgain") >>
  ELSE << SetS("ask_os_token", Spread(s.ctx, [osName |-> trim(raw)])),
          Upsert([flow_type |-> Get(s.ctx, "flow"), patient_type |-> "obra_social",
                  os_name |-> trim(raw), service_label |-> Get(s.ctx, "label"),
                  status |-> "awaiting_os_token"]),
          Send("askOsTokenText") >>

\* handleUserText, branch ask_os_token
onAskOsToken(s, raw) ==
  << Upsert([flow_type |-> flowOr(s.ctx), patient_type |-> "obra_social",
             os_name |-> Get(s.ctx, "osName"), os_token |-> trim(raw),
             service_label |-> labelOr(s.ctx), status |-> "awaiting_payment"]),
     LogEvent("os_data"),
     CreateMp("obra_social") >>

\* handleUserText, branch awaiting_payment
onAwaitingPayment(s, raw) ==
  IF extractOpId(raw) # <<>>
  THEN << ResetS,
          Upsert([flow_type |-> Get(s.ctx, "flow"), patient_type |-> Get(s.ctx, "patientType"),
                  os_name |-> Get(s.ctx, "osName"), os_token |-> Get(s.ctx, "osToken"),
                  service_label |-> Get(s.ctx, "label"),
                  payment_link |-> Get(s.ctx, "mpLink"),
                  payment_op_id |-> extractOpId(raw), status |-> "confirmed"]),
          LogEvent("receipt"),
          Send("receiptAckText"),
          Send("finalConfirmedText") >>
  ELSE << Upsert([status |-> "awaiting_payment"]), Send("sendProof") >>

\* handleUserText, branch menu
onMenu(norm) ==
  IF norm \in {<<"0">>, KwMenu, KwInicio}
  THEN << ResetS, Upsert([status |-> "menu"]), Send("menuText") >>
  ELSE IF \E kw \in {KwObra, KwPrepaga, KwOsde, KwSwiss} : includes(norm, kw)
  THEN << Upsert([status |-> "info_os"]), Send("infoObrasSociales") >>
  ELSE IF norm = <<"1">>
  THEN << SetS("awaiting_mrturno_done", [flow |-> "turno", label |-> LabelTurno]),
          Upsert([flow_type |-> "turno", service_label |-> LabelTurno,
                  status |-> "awaiting_mrturno"]),
          Send("mrTurnoText") >>
  ELSE IF norm = <<"2">>
  THEN << SetS("awaiting_mrturno_done", [flow |-> "estudio", label |-> LabelEstudios]),
          Upsert([flow_type |-> "estudio", service_label |-> LabelEstudios,
                  status |-> "awaiting_mrturno"]),
          Send("mrTurnoText") >>
  ELSE IF norm = <<"3">>
  THEN << Upsert([status |-> "info_os"]), Send("infoObrasSociales") >>
  ELSE IF norm = <<"4">>
  THEN << Upsert([status |-> "info_contacto"]), Send("infoContacto") >>
  ELSE IF norm = <<"5">> \/ includes(norm, KwRecep) \/ includes(norm, KwHumano)
  THEN << SetS("handoff", EmptyObj), Upsert([status |-> "handoff"]), Send("handoffText") >>
  ELSE << Upsert([status |-> "menu"]), Send("menuText") >>

\* handleUserText(waId, rawText), after getOrCreateCaseId has returned
handleUserText(s, rawText) ==
  LET raw == trim(rawText)
      norm == normalize(firstLine(raw))
  IN CASE s.state = "awaiting_mrturno_done" -> onAwaitingMrturno(s, norm)
       [] s.state = "ask_patient_type" -> onAskPatientType(s, norm)
       [] s.state = "ask_os_name" -> onAskOsName(s, raw)
       [] s.state = "ask_os_token" -> onAskOsToken(s, raw)
       [] s.state = "awaiting_payment" -> onAwaitingPayment(s, raw)
       [] s.state = "menu" -> onMenu(norm)
       [] OTHER -> << ResetS, Upsert([status |-> "fallback"]), Send("menuText") >>

\* handleMedia with the state test of its confirmation branch removed
handleMediaInAnyState(s) ==
  << ResetS,
     Upsert([flow_type |-> Get(s.ctx, "flow"), patient_type |-> Get(s.ctx, "patientType"),
             os_name |-> Get(s.ctx, "osName"), os_token |-> Get(s.ctx, "osToken"),
             service_label |-> Get(s.ctx, "label"),
             payment_link |-> Get(s.ctx, "mpLink"),
             payment_op_id |-> <<>>, status |-> "confirmed"]),
     LogEvent("receipt_media"),
     Send("receiptAckText"),
     Send("finalConfirmedText") >>

\* postHandler, media branch, after getOrCreateCaseId has returned
handleMedia(s) ==
  IF s.state = "awaiting_payment"
  THEN << ResetS,
          Upsert([flow_type |-> Get(s.ctx, "flow"), patient_type |-> Get(s.ctx, "patientType"),
                  os_name |-> Get(s.ctx, "osName"), os_token |-> Get(s.ctx, "osToken"),
                  service_label |-> Get(s.ctx, "label"),
                  payment_link |-> Get(s.ctx, "mpLink"),
                  payment_op_id |-> <<>>, status |-> "confirmed"]),
          LogEvent("receipt_media"),
          Send("receiptAckText"),
          Send("finalConfirmedText") >>
  ELSE << Upsert([status |-> "media_received"]), Send("mediaReceivedMenu") >>

\* What follows createMpPreference in ask_patient_type '1' and in ask_os_token
afterMp(s, rawText, patientType, mpOk) ==
  LET os == IF patientType = "obra_social"
            THEN [os_name |-> Get(s.ctx, "osName"), os_token |-> trim(rawText)]
            ELSE EmptyObj
      osCtx == IF patientType = "obra_social"
               THEN [osName |-> Get(s.ctx, "osName"), osToken |-> trim(rawText)]
               ELSE EmptyObj
      base == Spread([flow_type |-> flowOr(s.ctx), patient_type |-> patientType,
                      service_label |-> labelOr(s.ctx)], os)
  IN IF ~mpOk
     THEN << SetS("handoff", EmptyObj),
             Upsert(Spread(base, [status |-> "mp_failed"])),
             Send(IF patientType = "particular" THEN "mpFailedParticular" ELSE "mpFailedOs") >>
     ELSE << SetS("awaiting_payment",
                  Spread([flow |-> flowOr(s.ctx), label |-> labelOr(s.ctx),
                          patientType |-> patientType, mpLink |-> "init_point"], osCtx)),
             Upsert(Spread(base, [payment_link |-> "init_point",
                                  status |-> "awaiting_payment"])),
             LogEvent("mp_link"),
             Send("paymentLinkText") >>

-----------------------------------------------------------------------------
(* Execution of a handler.  JavaScript runs a handler without             *)
(* interruption from one await to the next; a call to a collaborator      *)
(* that is not configured returns without leaving the event-loop turn.    *)
(* A machine M holds the shared maps and the executing task M.t; the      *)
(* head of M.t.todo is the call the task is suspended at.                 *)

NoCur == [has |-> FALSE, caseId |-> <<>>, row |-> 0, data |-> EmptyObj]

NewTask(waId, kind, rawText, sess, t) ==
  [wa |-> waId, kind |-> kind, raw |-> rawText, s |-> getSession(sess, waId, t),
   caseId |-> <<>>, todo |-> <<GetOrCreate>>, cur |-> NoCur,
   sent |-> <<>>, logged |-> <<>>, mp |-> "none", setTo |-> "", aborted |-> FALSE,
   sheetFailed |-> FALSE, at |-> t]

\* The branch of the handler chosen from the session snapshot
branchOf(t) == IF t.kind = "text" THEN handleUserText(t.s, t.raw) ELSE handleMedia(t.s)

\* An exception leaves the handler; postHandler's catch logs it.
Abort(M) == [M EXCEPT !.t.todo = <<>>, !.t.aborted = TRUE]

\* A spreadsheet call that was not configured or failed: sheetAppendWithRow,
\* sheetAppend and sheetUpdate return { ok: false }.
noteSheet(M, outcome) ==
  IF outcome = "ok" THEN M ELSE [M EXCEPT !.t.sheetFailed = TRUE]

\* getOrCreateCaseId after its await: the row is appended (or not), the
\* store entry is set and the new id returned.
completeGetOrCreate(M, outcome) ==
  LET t == M.t
      ok == sheetResult(outcome) = "ok"
      data == [status |-> "lead"]
      row == IF ok THEN Len(M.sheet) + 1 ELSE 0
      t1 == [t EXCEPT !.caseId = t.cur.caseId, !.cur = NoCur]
  IN IF sheetResult(outcome) = "throw" THEN Abort(M)
     ELSE [M EXCEPT
             !.sheet = IF ok THEN Append(@, buildCaseRow(t.wa, t.cur.caseId, data)) ELSE @,
             !.store = MapSet(@, t.wa, [caseId |-> t.cur.caseId, row |-> row, data |-> data]),
             !.returned[t.wa] = @ \cup {t.cur.caseId},
             !.t = [t1 EXCEPT !.todo = branchOf(t1)]]

\* upsertCase after its await, from the entry `cur` read before it
completeUpsert(M, outcome) ==
  LET t == M.t
      cur == t.cur
      patch == Head(t.todo).patch
      ok == sheetResult(outcome) = "ok"
      nextData == IF cur.has THEN Spread(cur.data, patch) ELSE patch
      rowValues == buildCaseRow(t.wa, cur.caseId, nextData)
      update == cur.has /\ cur.row # 0
      row == IF update THEN cur.row ELSE IF ok THEN Len(M.sheet) + 1 ELSE 0
  IN IF sheetResult(outcome) = "throw" THEN Abort(M)
     ELSE [M EXCEPT
             !.sheet = IF ~ok THEN @
                       ELSE IF update THEN [@ EXCEPT ![cur.row] = rowValues]
                       ELSE Append(@, rowValues),
             !.store = MapSet(@, t.wa, [caseId |-> cur.caseId, row |-> row,
                                        data |-> nextData]),
             !.returned[t.wa] = @ \cup {cur.caseId},
             !.t = [t EXCEPT !.todo = Tail(@), !.cur = NoCur]]

\* logEvent after its await
completeLogEvent(M, outcome) ==
  IF sheetResult(outcome) = "throw" THEN Abort(M)
  ELSE [M EXCEPT !.t.todo = Tail(@),
                 !.t.logged = IF sheetResult(outcome) = "ok"
                              THEN Append(@, Head(M.t.todo).type) ELSE @]

\* createMpPreference after its fetch: a preference for external_reference
\* caseId, a non-OK response, or a rejected fetch.
completeMp(M, outcome) ==
  LET t == M.t
      pt == Head(t.todo).patientType
  IN IF outcome = "throw" THEN Abort([M EXCEPT !.t.mp = "throw"])
     ELSE [M EXCEPT
             !.prefs = IF outcome = "ok" THEN @ \cup {t.caseId} ELSE @,
             !.t.mp = outcome,
             !.t.todo = afterMp(t.s, t.raw, pt, outcome = "ok")]

\* sendText after its fetch
completeSend(M, outcome) ==
  [M EXCEPT !.t.todo = Tail(@), !.t.sent = Append(@, Head(M.t.todo).msg)]

\* The awaited call at the head of the task completes.
Complete(M, outcome) ==
  LET op == Head(M.t.todo).op
  IN CASE op = "getOrCreate" -> completeGetOrCreate(noteSheet(M, outcome), outcome)
       [] op = "upsert" -> completeUpsert(noteSheet(M, outcome), outcome)
       [] op = "logEvent" -> completeLogEvent(noteSheet(M, outcome), outcome)
       [] op = "mp" -> completeMp(M, outcome)
       [] op = "send" -> completeSend(M, outcome)

\* The synchronous part of getOrCreateCaseId and of upsertCase: the entry is
\* read, and an id is drawn when there is none.
readCase(M) ==
  LET t == M.t
      op == Head(t.todo).op
      has == t.wa \in DOMAIN M.store
  IN IF has
     THEN [M EXCEPT !.t.cur = [has |-> TRUE, caseId |-> M.store[t.wa].caseId,
                               row |-> M.store[t.wa].row, data |-> M.store[t.wa].data]]
     ELSE [M EXCEPT !.idCount[t.wa] = @ + 1,
                    !.t.cur = [has |-> FALSE, caseId |-> makeCaseId(t.wa, M.idCount[t.wa] + 1),
                               row |-> 0, data |-> EmptyObj]]

\* Runs the task from where it stands to its next await on a configured
\* collaborator, or to its end.
RECURSIVE RunSync(_)
RunSync(M) ==
  IF M.t.todo = <<>> THEN M
  ELSE
    LET t == M.t
        h == Head(t.todo)
    IN CASE h.op = "setSession" ->
              RunSync([M EXCEPT !.sessions = setSession(@, t.wa, h.state, h.patch, now),
                                !.t.setTo = h.state, !.t.todo = Tail(@)])
         [] h.op = "resetSession" ->
              RunSync([M EXCEPT !.sessions = resetSession(@, t.wa, now),
                                !.t.setTo = "menu", !.t.todo = Tail(@)])
         [] h.op = "getOrCreate" ->
              IF t.wa \in DOMAIN M.store /\ M.store[t.wa].caseId # <<>>
              THEN LET t1 == [t EXCEPT !.caseId = M.store[t.wa].caseId]
                   IN RunSync([M EXCEPT !.returned[t.wa] = @ \cup {t1.caseId},
                                        !.t = [t1 EXCEPT !.todo = branchOf(t1)]])
              ELSE IF env.gsheet THEN readCase(M)
                   ELSE RunSync(Complete(readCase(M), "missing_gsheet_env"))
         [] h.op = "upsert" ->
              IF env.gsheet THEN readCase(M)
              ELSE RunSync(Complete(readCase(M), "missing_gsheet_env"))
         [] h.op = "logEvent" ->
              IF env.gsheet THEN M ELSE RunSync(Complete(M, "missing_gsheet_env"))
         [] h.op = "mp" ->
              IF env.mp THEN M ELSE RunSync(Complete(M, "missing_mp_token"))
         [] h.op = "send" -> M

\* The outcomes of an awaited call on a configured collaborator
Outcomes(op) ==
  CASE op \in {"getOrCreate", "upsert", "logEvent"} -> {"ok", "failed"}
    [] op = "mp" -> {"ok", "not_ok", "throw"}
    [] op = "send" -> {"ok"}

-----------------------------------------------------------------------------
(* Actions of the state-first revision.                                   *)

NoDone ==
  [wa |-> "", kind |-> "none", raw |-> <<>>,
   s |-> [state |-> "menu", ctx |-> EmptyObj, updatedAt |-> 0],
   caseId |-> <<>>, sent |-> <<>>, logged |-> <<>>, mp |-> "none", setTo |-> "",
   aborted |-> FALSE, sheetFailed |-> FALSE, at |-> 0]

Summary(t) ==
  [wa |-> t.wa, kind |-> t.kind, raw |-> t.raw, s |-> t.s, caseId |-> t.caseId, sent |-> t.sent,
   logged |-> t.logged, mp |-> t.mp, setTo |-> t.setTo, aborted |-> t.aborted,
   sheetFailed |-> t.sheetFailed, at |-> t.at]

Machine(t) ==
  [sessions |-> sessions, store |-> caseStore, sheet |-> sheetCases,
   idCount |-> idCount, returned |-> returned, prefs |-> mpPrefs, t |-> t]

RemoveAt(seq, i) == SubSeq(seq, 1, i - 1) \o SubSeq(seq, i + 1, Len(seq))

\* The shared maps after the task of M ran; `others` are the other tasks and
\* `slot` the place of this one among them.
Commit(M, others, slot) ==
  /\ sessions' = M.sessions
  /\ caseStore' = M.store
  /\ sheetCases' = M.sheet
  /\ idCount' = M.idCount
  /\ returned' = M.returned
  /\ mpPrefs' = M.prefs
  /\ IF M.t.todo = <<>>
     THEN /\ tasks' = others
          /\ done' = Summary(M.t)
     ELSE /\ tasks' = SubSeq(others, 1, slot - 1) \o <<M.t>> \o SubSeq(others, slot, Len(others))
          /\ done' = NoDone

NoDelivery == [msgId |-> 0, retry |-> FALSE]

\* postHandler for a delivery with a valid signature and body that carries
\* one message: the dedup check, then the handler up to its first await.
\* mayRetry: the provider may deliver this message again.
postHandler(msgId, waId, kind, rawText, mayRetry) ==
  /\ lastDelivery' = [msgId |-> msgId,
                      retry |-> msgId \in DOMAIN redeliverable /\
                                (now - redeliverable[msgId].at) * TickMs <= SEEN_TTL_MS]
  /\ IF msgId \in DOMAIN seenMsg
     THEN /\ done' = NoDone
          /\ UNCHANGED <<seenMsg, redeliverable, sessions, caseStore, sheetCases, idCount,
                         returned, mpPrefs, tasks>>
     ELSE /\ seenMsg' = MapSet(seenMsg, msgId, now)
          /\ redeliverable' =
               IF mayRetry
               THEN MapSet(redeliverable, msgId,
                           [wa |-> waId, kind |-> kind, raw |-> rawText, at |-> now])
               ELSE redeliverable
          /\ Commit(RunSync(Machine(NewTask(waId, kind, rawText, sessions, now))),
                    tasks, Len(tasks) + 1)

\* The provider delivers a new message, the msgLimit-th at most; it may
\* arrive while a handler is suspended overlapLimit times at most.
Deliver(waId, kind, rawText, msgLimit, overlapLimit, mayRetry) ==
  /\ nextMsg < msgLimit
  /\ tasks # <<>> => overlaps < overlapLimit
  /\ nextMsg' = nextMsg + 1
  /\ overlaps' = IF tasks # <<>> THEN overlaps + 1 ELSE overlaps
  /\ postHandler(nextMsg + 1, waId, kind, rawText, mayRetry)
  /\ UNCHANGED <<now, env, mpPaid, sheetFailures, prodVars, httpVars, call, cepaVars>>

\* The provider delivers a message again, under the same message id
Redeliver(msgId) ==
  /\ msgId \in DOMAIN redeliverable
  /\ postHandler(msgId, redeliverable[msgId].wa, redeliverable[msgId].kind,
                 redeliverable[msgId].raw, TRUE)
  /\ UNCHANGED <<now, env, mpPaid, nextMsg, sheetFailures, overlaps, prodVars, httpVars, call, cepaVars>>

\* The call the i-th suspended handler awaits completes, and the handler runs
\* on to its next await or to its end.
Resume(i, outcome) ==
  /\ i \in 1..Len(tasks)
  /\ outcome \in Outcomes(Head(tasks[i].todo).op)
  /\ outcome = "failed" => sheetFailures < MaxSheetFailures
  /\ sheetFailures' = IF outcome = "failed" THEN sheetFailures + 1 ELSE sheetFailures
  /\ Commit(RunSync(Complete(Machine(tasks[i]), outcome)), RemoveAt(tasks, i), i)
  /\ lastDelivery' = NoDelivery
  /\ UNCHANGED <<now, env, seenMsg, nextMsg, mpPaid, redeliverable, overlaps, prodVars, httpVars, call, cepaVars>>

\* setInterval(..., 60 * 1000), in ticks: both sweeps run every minute from
\* the start of the process.
SweepPeriod == (60 * 1000) \div TickMs

\* The session sweep at time t: every entry without updatedAt or older than
\* SESSION_TTL_MS is deleted.
sweepSessions(sess, t) ==
  MapDelete(sess, {w \in DOMAIN sess : sessionExpired(sess[w].updatedAt, t)})

\* The dedup sweep at time t
sweepSeen(seen, t) ==
  MapDelete(seen, {m \in DOMAIN seen : seenExpired(seen[m], t)})

\* The last instant at or before t at which the sweeps ran
lastSweepAt(t) == t - (t % SweepPeriod)

\* d ticks pass with no delivery; the sweeps that fall due run.  Both only
\* delete what has expired, which stays expired, so the runs in the interval
\* leave what the last of them leaves.  The awaited calls of a handler
\* complete within the tick they were made in.
Advance(d) ==
  /\ now + d <= MaxNow
  /\ tasks = <<>>
  /\ now' = now + d
  /\ IF lastSweepAt(now + d) > now
     THEN /\ sessions' = sweepSessions(sessions, lastSweepAt(now + d))
          /\ seenMsg' = sweepSeen(seenMsg, lastSweepAt(now + d))
     ELSE UNCHANGED <<sessions, seenMsg>>
  /\ done' = NoDone
  /\ lastDelivery' = NoDelivery
  /\ UNCHANGED <<env, caseStore, sheetCases, tasks, idCount, sheetFailures, overlaps,
                 nextMsg, mpPrefs, mpPaid, returned, redeliverable, prodVars, httpVars, call, cepaVars>>

\* The payer pays the deposit through the link of a created preference: the
\* provider now holds an approved payment of the deposit amount whose
\* external_reference is that case id.
ProviderPayment(caseId) ==
  /\ caseId \in mpPrefs \ mpPaid
  /\ mpPaid' = mpPaid \cup {caseId}
  /\ done' = NoDone
  /\ lastDelivery' = NoDelivery
  /\ UNCHANGED <<now, env, sessions, caseStore, sheetCases, seenMsg, tasks, idCount,
                 sheetFailures, overlaps, nextMsg, mpPrefs, returned, redeliverable,
                 prodVars, httpVars, call, cepaVars>>

CaseIds == {makeCaseId(w, k) : w \in Senders, k \in 1..(MaxOverlaps + 1)}

\* process.env without WA_VERIFY_TOKEN and META_APP_SECRET
NoWebEnv == [verifyToken |-> "", appSecret |-> FALSE]

\* No helper function called yet
NoCall == [fn |-> "none"]

\* No HTTP exchange on a webhook route yet
NoExchange ==
  [server |-> "none", method |-> "none", mode |-> "", token |-> "", sig |-> <<>>,
   json |-> TRUE, status |-> 0, body |-> "", events |-> <<>>]

Init ==
  /\ now = 0
  /\ env \in [gsheet : BOOLEAN, mp : BOOLEAN]
  /\ sessions = EmptyObj
  /\ caseStore = EmptyObj
  /\ sheetCases = <<>>
  /\ seenMsg = EmptyObj
  /\ tasks = <<>>
  /\ idCount = [w \in Senders |-> 0]
  /\ nextMsg = 0
  /\ mpPrefs = {}
  /\ mpPaid = {}
  /\ sheetFailures = 0
  /\ overlaps = 0
  /\ done = NoDone
  /\ returned = [w \in Senders |-> {}]
  /\ redeliverable = EmptyObj
  /\ lastDelivery = NoDelivery
  /\ psessions = EmptyObj
  /\ timers = {}
  /\ timerCount = 0
  /\ caseByWa = EmptyObj
  /\ lastRow = EmptyObj
  /\ pdone = [wa |-> "", kind |-> "none", raw |-> <<>>, sent |-> <<>>, timer |-> 0,
              s |-> [state |-> "menu",
                     context |-> [type |-> "", label |-> <<>>, patientType |-> "",
                                  osName |-> <<>>, osToken |-> <<>>, mp |-> "",
                                  reminderTimer |-> 0, reminderSent |-> FALSE],
                     updatedAt |-> 0]]
  /\ pwait = <<>>
  /\ reminders = [w \in Senders |-> 0]
  /\ henv = NoWebEnv
  /\ conversations = EmptyObj
  /\ appointments = <<>>
  /\ handoffs = 0
  /\ hdone = NoExchange
  /\ call = NoCall
  /\ csessions = EmptyObj
  /\ cdone = NoCepaDone

\* The sender of the scenarios
Sender == "54900"

\* One conversation, each message delivered after the handling of the
\* previous one ended.
DeliverText == \E raw \in Texts : Deliver(Sender, "text", raw, MaxMsgs, 0, FALSE)

DeliverMedia == Deliver(Sender, "media", <<>>, MaxMsgs, 0, FALSE)

Await == \E i \in 1..(MaxOverlaps + 1), o \in {"ok", "failed", "not_ok", "throw"} : Resume(i, o)

Pay == \E c \in CaseIds : ProviderPayment(c)

Next ==
  \/ DeliverText
  \/ DeliverMedia
  \/ Await
  \/ Pay

Spec == Init /\ [][Next]_vars

\* One conversation whose messages may arrive while the handling of an
\* earlier one is suspended at an await.
DeliverTextRace == \E raw \in Texts : Deliver(Sender, "text", raw, MaxRaceMsgs, MaxOverlaps, FALSE)

DeliverMediaRace == Deliver(Sender, "media", <<>>, MaxRaceMsgs, MaxOverlaps, FALSE)

NextRace ==
  \/ DeliverTextRace
  \/ DeliverMediaRace
  \/ Await
  \/ Pay

SpecRace == Init /\ [][NextRace]_vars

\* A conversation over time: the provider may deliver a message again, the
\* sweeps run, and a handler may stay suspended while time passes.
DeliverTextTime == \E raw \in TimeTexts : Deliver(Sender, "text", raw, MaxTimeMsgs, MaxOverlaps, TRUE)

DeliverAgain == \E m \in 1..MaxTimeMsgs : Redeliver(m)

TimePasses == \E d \in Durations : Advance(d)

\* An awaited call completes; the spreadsheet does not fail.
AwaitTime == \E i \in 1..(MaxOverlaps + 1), o \in {"ok", "throw"} : Resume(i, o)

NextTime ==
  \/ DeliverTextTime
  \/ DeliverAgain
  \/ TimePasses
  \/ AwaitTime

\* Both collaborators are configured.
InitTime == Init /\ env = [gsheet |-> TRUE, mp |-> TRUE]

SpecTime == InitTime /\ [][NextTime]_vars

-----------------------------------------------------------------------------
(* The prod-pack revision (server.cjs, lines 1-1267): its natural layer,  *)
(* sessions with a context object, and the payment reminder.              *)

\* const SPECIALTIES: label and keywords, in the order of the source
SPECIALTIES ==
  <<
    [label |-> <<"G", "i", "n", "e", "c", "o", "l", "o", "g", "í", "a", " ", "/", " ", "O", "b", "s", "t", "e", "t", "r", "i", "c", "i", "a">>,
     kw |-> <<<<"g", "i", "n", "e">>, <<"o", "b", "s", "t", "e">>, <<"p", "a", "p", "a", "n", "i", "c", "o">>, <<"p", "a", "p">>, <<"c", "o", "l", "p", "o">>>>],
    [label |-> <<"P", "e", "d", "i", "a", "t", "r", "í", "a">>,
     kw |-> <<<<"p", "e", "d", "i">>, <<"n", "i", "ñ", "o">>, <<"n", "i", "n", "o">>, <<"i", "n", "f", "a", "n", "t", "i", "l">>>>],
    [label |-> <<"C", "l", "í", "n", "i", "c", "a", " ", "m", "é", "d", "i", "c", "a", " ", "/", " ", "M", "e", "d", "i", "c", "i", "n", "a", " ", "f", "a", "m", "i", "l", "i", "a", "r">>,
     kw |-> <<<<"c", "l", "i", "n", "i", "c", "a">>, <<"f", "a", "m", "i", "l", "i", "a">>, <<"g", "e", "n", "e", "r", "a", "l">>>>],
    [label |-> <<"C", "a", "r", "d", "i", "o", "l", "o", "g", "í", "a">>,
     kw |-> <<<<"c", "a", "r", "d", "i", "o">>, <<"c", "o", "r", "a", "z", "o", "n">>>>],
    [label |-> <<"D", "e", "r", "m", "a", "t", "o", "l", "o", "g", "í", "a">>,
     kw |-> <<<<"d", "e", "r", "m", "a">>, <<"p", "i", "e", "l">>>>],
    [label |-> <<"T", "r", "a", "u", "m", "a", "t", "o", "l", "o", "g", "í", "a">>,
     kw |-> <<<<"t", "r", "a", "u", "m", "a">>, <<"r", "o", "d", "i", "l", "l", "a">>, <<"h", "u", "e", "s", "o">>>>],
    [label |-> <<"G", "a", "s", "t", "r", "o", "e", "n", "t", "e", "r", "o", "l", "o", "g", "í", "a">>,
     kw |-> <<<<"g", "a", "s", "t", "r", "o">>, <<"d", "i", "g", "e", "s", "t">>>>],
    [label |-> <<"E", "n", "d", "o", "c", "r", "i", "n", "o", "l", "o", "g", "í", "a", " ", "/", " ", "D", "i", "a", "b", "e", "t", "o", "l", "o", "g", "í", "a">>,
     kw |-> <<<<"e", "n", "d", "o">>, <<"d", "i", "a", "b", "e">>, <<"t", "i", "r", "o", "i", "d">>>>],
    [label |-> <<"U", "r", "o", "l", "o", "g", "í", "a">>,
     kw |-> <<<<"u", "r", "o">>>>],
    [label |-> <<"O", "R", "L">>,
     kw |-> <<<<"o", "r", "l">>, <<"o", "t", "o", "r", "r", "i", "n", "o">>>>],
    [label |-> <<"O", "f", "t", "a", "l", "m", "o", "l", "o", "g", "í", "a">>,
     kw |-> <<<<"o", "f", "t">>, <<"o", "j", "o">>, <<"v", "i", "s", "i", "o", "n">>>>],
    [label |-> <<"P", "s", "i", "c", "o", "l", "o", "g", "í", "a">>,
     kw |-> <<<<"p", "s", "i", "c", "o">>, <<"t", "e", "r", "a", "p", "i", "a">>>>],
    [label |-> <<"N", "u", "t", "r", "i", "c", "i", "ó", "n">>,
     kw |-> <<<<"n", "u", "t", "r", "i">>, <<"a", "l", "i", "m", "e", "n", "t">>>>],
    [label |-> <<"O", "d", "o", "n", "t", "o", "l", "o", "g", "í", "a">>,
     kw |-> <<<<"o", "d", "o", "n", "t", "o">>, <<"d", "i", "e", "n", "t", "e">>>>]
  >>

\* const STUDIES
STUDIES ==
  <<
    [label |-> <<"M", "a", "m", "o", "g", "r", "a", "f", "í", "a">>,
     kw |-> <<<<"m", "a", "m", "o">>, <<"m", "a", "m", "o", "g", "r", "a", "f", "i", "a">>>>],
    [label |-> <<"R", "a", "d", "i", "o", "l", "o", "g", "í", "a">>,
     kw |-> <<<<"r", "a", "d", "i", "o">>, <<"r", "a", "y", "o", "s">>>>],
    [label |-> <<"E", "c", "o", "g", "r", "a", "f", "í", "a", " ", "/", " ", "E", "c", "o", " ", "5", "D">>,
     kw |-> <<<<"e", "c", "o">>, <<"e", "c", "o", "g", "r", "a", "f", "i", "a">>, <<"5", "d">>>>],
    [label |-> <<"E", "c", "o", "d", "o", "p", "p", "l", "e", "r", " ", "C", "o", "l", "o", "r", " ", "/", " ", "E", "c", "o", "c", "a", "r", "d", "i", "o", "g", "r", "a", "m", "a", " ", "D", "o", "p", "p", "l", "e", "r">>,
     kw |-> <<<<"d", "o", "p", "p", "l", "e", "r">>, <<"e", "c", "o", "d", "o", "p", "p", "l", "e", "r">>, <<"e", "c", "o", "c", "a", "r", "d", "i", "o", "g", "r", "a", "m", "a">>>>],
    [label |-> <<"E", "C", "G">>,
     kw |-> <<<<"e", "c", "g">>, <<"e", "l", "e", "c", "t", "r", "o">>>>],
    [label |-> <<"M", "A", "P", "A", " ", "/", " ", "P", "r", "e", "s", "u", "r", "o", "m", "e", "t", "r", "í", "a">>,
     kw |-> <<<<"m", "a", "p", "a">>, <<"p", "r", "e", "s", "u", "r", "o">>, <<"p", "r", "e", "s", "i", "o", "n">>>>],
    [label |-> <<"E", "r", "g", "o", "m", "e", "t", "r", "í", "a">>,
     kw |-> <<<<"e", "r", "g", "o">>, <<"e", "r", "g", "o", "m", "e", "t", "r", "i", "a">>>>],
    [label |-> <<"H", "o", "l", "t", "e", "r">>,
     kw |-> <<<<"h", "o", "l", "t", "e", "r">>>>],
    [label |-> <<"L", "a", "b", "o", "r", "a", "t", "o", "r", "i", "o">>,
     kw |-> <<<<"l", "a", "b", "o", "r", "a", "t", "o", "r", "i", "o">>, <<"a", "n", "a", "l", "i", "s", "i", "s">>>>],
    [label |-> <<"P", "o", "l", "i", "g", "r", "a", "f", "í", "a", " ", "/", " ", "E", "s", "p", "i", "r", "o", "m", "e", "t", "r", "í", "a">>,
     kw |-> <<<<"p", "o", "l", "i", "g", "r", "a", "f", "i", "a">>, <<"e", "s", "p", "i", "r", "o">>, <<"r", "e", "s", "p", "i", "r">>>>],
    [label |-> <<"A", "u", "d", "i", "o", "m", "e", "t", "r", "í", "a", " ", "/", " ", "B", "E", "R", "A", " ", "/", " ", "O", "E", "A">>,
     kw |-> <<<<"a", "u", "d", "i", "o">>, <<"a", "u", "d", "i", "o", "m", "e", "t", "r", "i", "a">>, <<"b", "e", "r", "a">>, <<"o", "e", "a">>, <<"i", "m", "p", "e", "d">>>>]
  >>

\* The labels of options 1..6 of the specialties prompt
TurnoByNum ==
  <<
    <<"G", "i", "n", "e", "c", "o", "l", "o", "g", "í", "a", " ", "/", " ", "O", "b", "s", "t", "e", "t", "r", "i", "c", "i", "a">>,
    <<"P", "e", "d", "i", "a", "t", "r", "í", "a">>,
    <<"C", "l", "í", "n", "i", "c", "a", " ", "m", "é", "d", "i", "c", "a", " ", "/", " ", "M", "e", "d", "i", "c", "i", "n", "a", " ", "f", "a", "m", "i", "l", "i", "a", "r">>,
    <<"C", "a", "r", "d", "i", "o", "l", "o", "g", "í", "a">>,
    <<"D", "e", "r", "m", "a", "t", "o", "l", "o", "g", "í", "a">>,
    <<"T", "r", "a", "u", "m", "a", "t", "o", "l", "o", "g", "í", "a">>
  >>

\* byNum of the studies branch, options 1..9
EstudioByNum ==
  <<
    <<"M", "a", "m", "o", "g", "r", "a", "f", "í", "a">>,
    <<"E", "c", "o", "g", "r", "a", "f", "í", "a", " ", "/", " ", "E", "c", "o", " ", "5", "D">>,
    <<"D", "o", "p", "p", "l", "e", "r", " ", "/", " ", "E", "c", "o", "c", "a", "r", "d", "i", "o", "g", "r", "a", "m", "a", " ", "D", "o", "p", "p", "l", "e", "r">>,
    <<"E", "C", "G">>,
    <<"M", "A", "P", "A", " ", "(", "p", "r", "e", "s", "i", "ó", "n", ")">>,
    <<"E", "r", "g", "o", "m", "e", "t", "r", "í", "a">>,
    <<"H", "o", "l", "t", "e", "r">>,
    <<"L", "a", "b", "o", "r", "a", "t", "o", "r", "i", "o">>,
    <<"A", "u", "d", "i", "o", "m", "e", "t", "r", "í", "a", " ", "/", " ", "B", "E", "R", "A", " ", "/", " ", "O", "E", "A">>
  >>

\* const GREETINGS
GREETINGS ==
  {
    <<"h", "o", "l", "a">>, <<"h", "o", "l", "a", "a">>,
    <<"b", "u", "e", "n", " ", "d", "i", "a">>,
    <<"b", "u", "e", "n", " ", "d", "í", "a">>,
    <<"b", "u", "e", "n", "a", "s">>,
    <<"b", "u", "e", "n", "a", "s", " ", "t", "a", "r", "d", "e", "s">>,
    <<"b", "u", "e", "n", "a", "s", " ", "n", "o", "c", "h", "e", "s">>,
    <<"h", "e", "y">>, <<"q", "u", "e", " ", "t", "a", "l">>,
    <<"q", "u", "é", " ", "t", "a", "l">>
  }

\* const THANKS
THANKS ==
  {
    <<"g", "r", "a", "c", "i", "a", "s">>,
    <<"m", "u", "c", "h", "a", "s", " ", "g", "r", "a", "c", "i", "a", "s">>,
    <<"m", "i", "l", " ", "g", "r", "a", "c", "i", "a", "s">>,
    <<"g", "e", "n", "i", "a", "l", " ", "g", "r", "a", "c", "i", "a", "s">>,
    <<"g", "r", "a", "c", "i", "a", "s", "s">>
  }

\* const BYE
BYE ==
  {
    <<"c", "h", "a", "u">>, <<"c", "h", "a", "o">>,
    <<"h", "a", "s", "t", "a", " ", "l", "u", "e", "g", "o">>,
    <<"n", "o", "s", " ", "v", "e", "m", "o", "s">>,
    <<"a", "d", "i", "o", "s">>, <<"a", "d", "i", "ó", "s">>,
    <<"b", "y", "e">>
  }

\* normalize(g) for every g of GREETINGS, and normalize(t) for every t of
\* THANKS and of BYE
NormalizedGreetings == {normalize(g) : g \in GREETINGS}

NormalizedThanksBye == {normalize(t) : t \in THANKS \cup BYE}

\* isGreeting(norm)
isGreeting(norm) ==
  \E g \in NormalizedGreetings : norm = g \/ startsWith(norm, g)

\* isThanksOrBye(norm)
isThanksOrBye(norm) ==
  \E t \in NormalizedThanksBye : norm = t \/ includes(norm, t)

\* /\d{6,}/.test(norm)
hasSixDigits(norm) ==
  \E i \in 1..Len(norm) : norm[i] \in Digits /\ skipClass(norm, i, Digits) - i >= 6

\* maybeLooksLikeReceiptText(norm)
maybeLooksLikeReceiptText(norm) ==
  \/ includes(norm, <<"c", "o", "m", "p", "r", "o", "b", "a", "n", "t", "e">>)
  \/ includes(norm, <<"t", "r", "a", "n", "s", "f", "e", "r">>)
  \/ includes(norm, <<"i", "d">>)
  \/ includes(norm, <<"o", "p">>)
  \/ hasSixDigits(norm)

\* Group 1 of /\b(\d{6,})\b/ matched at position i, or <<>>.
sixDigitsAt(s, i) ==
  IF wordBoundary(s, i) /\ i <= Len(s) /\ s[i] \in Digits
  THEN LET e == skipClass(s, i, Digits)
       IN IF e - i >= 6 /\ wordBoundary(s, e) THEN SubSeq(s, i, e - 1) ELSE <<>>
  ELSE <<>>

\* extractOperationId(text)
extractOperationId(text) ==
  LET hits == {i \in 1..Len(text) : sixDigitsAt(text, i) # <<>>}
  IN IF hits # {} THEN sixDigitsAt(text, CHOOSE i \in hits : \A j \in hits : i <= j)
     ELSE <<>>

\* findMatch(norm, list): the label of the first item one of whose keywords
\* norm includes, or <<>> for null
findMatch(norm, list) ==
  LET hit(i) == \E k \in 1..Len(list[i].kw) : includes(norm, list[i].kw[k])
      hits == {i \in 1..Len(list) : hit(i)}
  IN IF hits # {} THEN list[CHOOSE i \in hits : \A j \in hits : i <= j].label
     ELSE <<>>

\* Keywords of the prod-pack handler's includes() tests
TURNO == <<"t", "u", "r", "n", "o">>

ESTUDIO == <<"e", "s", "t", "u", "d", "i", "o">>

ECO == <<"e", "c", "o">>

HOLTER == <<"h", "o", "l", "t", "e", "r">>

DOPPLER == <<"d", "o", "p", "p", "l", "e", "r">>

HORARIO == <<"h", "o", "r", "a", "r", "i", "o">>

DIRECCION == <<"d", "i", "r", "e", "c", "c", "i", "o", "n">>

UBIC == <<"u", "b", "i", "c">>

PERSONA == <<"p", "e", "r", "s", "o", "n", "a">>

\* {}: a context with every key undefined (every read of a key goes through
\* `|| ''` or a truth test, so undefined, '', false and null are one value)
EmptyContext ==
  [type |-> "", label |-> <<>>, patientType |-> "", osName |-> <<>>, osToken |-> <<>>,
   mp |-> "", reminderTimer |-> 0, reminderSent |-> FALSE]

\* PAYMENT_WINDOW_MS with PAYMENT_WINDOW_MINUTES unset: 60 minutes
PAYMENT_WINDOW_MS == 60 * 60 * 1000

\* getSession(waId)
prodGetSession(sess, waId, t) ==
  IF waId \in DOMAIN sess THEN sess[waId]
  ELSE [state |-> "menu", context |-> EmptyContext, updatedAt |-> t]

\* clearTimeout(timer)
clearTimeout(pending, id) == {x \in pending : x.id # id}

\* setSession(waId, { state })
prodSetState(P, waId, state) ==
  [P EXCEPT !.sessions =
     MapSet(@, waId, [prodGetSession(P.sessions, waId, now) EXCEPT
                        !.state = state, !.updatedAt = now])]

\* setSession(waId, { state, context })
prodSetSession(P, waId, state, context) ==
  [P EXCEPT !.sessions =
     MapSet(@, waId, [state |-> state, context |-> context, updatedAt |-> now])]

\* resetSession(waId)
prodResetSession(P, waId) ==
  [P EXCEPT
     !.timers = IF waId \in DOMAIN P.sessions
                   /\ P.sessions[waId].context.reminderTimer # 0
                THEN clearTimeout(@, P.sessions[waId].context.reminderTimer)
                ELSE @,
     !.sessions = MapSet(@, waId, [state |-> "menu", context |-> EmptyContext,
                                   updatedAt |-> now])]

\* schedulePaymentReminder(waId), with the deposit required (the default)
schedulePaymentReminder(P, waId) ==
  LET s == prodGetSession(P.sessions, waId, now)
      id == P.timerCount + 1
  IN IF s.state # "awaiting_payment" \/ s.context.reminderTimer # 0 THEN P
     ELSE prodSetSession(
            [P EXCEPT !.timerCount = id,
                      !.timers = @ \cup {[id |-> id, wa |-> waId,
                                          due |-> now + PAYMENT_WINDOW_MS \div TickMs]}],
            waId, "awaiting_payment",
            [s.context EXCEPT !.reminderTimer = id, !.reminderSent = FALSE])

\* ensureCase(waId, patch): the sender's case id, drawn on first contact, and
\* the row appended to the cases sheet by sheetAppend('cases!A:N', row): its
\* status, and n, how many rows the sheet then holds for the sender.
ensureCase(P, waId, status) ==
  LET caseId == IF waId \in DOMAIN P.caseByWa THEN P.caseByWa[waId]
                ELSE makeCaseId(waId, 1)
      held == IF waId \in DOMAIN P.lastRow THEN P.lastRow[waId].n ELSE 0
  IN [P EXCEPT !.caseByWa = MapSet(@, waId, caseId),
               !.lastRow = MapSet(@, waId, [case_id |-> caseId, status |-> status,
                                            n |-> IF env.gsheet THEN held + 1 ELSE held])]

\* sendText(waId, text)
prodSend(P, msg) == [P EXCEPT !.sent = Append(@, msg)]

\* sendMrTurno(label) of the branches turnos and estudios, and the same
\* steps of awaiting_specialty_text and awaiting_study_text
sendMrTurno(P, waId, type, label) ==
  prodSend(
    ensureCase(
      prodSetSession(P, waId, "awaiting_mrturno_done",
                     [EmptyContext EXCEPT !.type = type, !.label = label]),
      waId, "awaiting_mrturno"),
    "mrturnoText")

\* The index of norm among '1'..'9', 0 when it is none of them
digitIndex(norm) ==
  IF Len(norm) = 1 /\ norm[1] \in Digits \ {"0"}
  THEN CHOOSE n \in 1..9 : <<"0", "1", "2", "3", "4", "5", "6", "7", "8", "9">>[n + 1] = norm[1]
  ELSE 0

\* handleUserText, session.state === 'menu'
prodOnMenu(P, waId, norm) ==
  LET L == ensureCase(P, waId, "lead")
  IN CASE norm = <<"1">> -> prodSend(prodSetState(L, waId, "turnos"), "turnosPrompt")
       [] norm = <<"2">> -> prodSend(prodSetState(L, waId, "estudios"), "estudiosPrompt")
       [] norm = <<"3">> -> prodSend(prodResetSession(L, waId), "esteticaInfo")
       [] norm = <<"4">> -> prodSend(prodResetSession(L, waId), "insuranceInfo")
       [] norm = <<"5">> -> prodSend(prodResetSession(L, waId), "infoContacto")
       [] norm = <<"6">> ->
            prodSend(prodSetSession(L, waId, "handoff", EmptyContext), "handoffPrompt")
       [] OTHER ->
            IF includes(norm, TURNO)
            THEN prodSend(prodSetState(L, waId, "turnos"), "turnosPrompt")
            ELSE IF \E kw \in {ESTUDIO, ECO, HOLTER, DOPPLER} : includes(norm, kw)
            THEN prodSend(prodSetState(L, waId, "estudios"), "estudiosPrompt")
            ELSE prodSend(L, "menuText")

\* handleUserText, session.state === 'turnos'
prodOnTurnos(P, waId, norm) ==
  IF digitIndex(norm) \in 1..6
  THEN sendMrTurno(P, waId, "turno", TurnoByNum[digitIndex(norm)])
  ELSE IF norm = <<"7">>
  THEN prodSend(prodSetSession(P, waId, "awaiting_specialty_text", EmptyContext),
                "askSpecialty")
  ELSE IF findMatch(norm, SPECIALTIES) # <<>>
  THEN sendMrTurno(P, waId, "turno", findMatch(norm, SPECIALTIES))
  ELSE prodSend(P, "specialtyNotFound")

\* handleUserText, session.state === 'estudios'
prodOnEstudios(P, waId, norm) ==
  IF digitIndex(norm) \in 1..9
  THEN sendMrTurno(P, waId, "estudio", EstudioByNum[digitIndex(norm)])
  ELSE IF norm = <<"1", "0">>
  THEN prodSend(prodSetSession(P, waId, "awaiting_study_text", EmptyContext), "askStudy")
  ELSE IF findMatch(norm, STUDIES) # <<>>
  THEN sendMrTurno(P, waId, "estudio", findMatch(norm, STUDIES))
  ELSE prodSend(P, "studyNotFound")

\* handleUserText, awaiting_specialty_text and awaiting_study_text
prodOnFreeText(P, waId, norm, rawText, type, list) ==
  sendMrTurno(P, waId, type,
              IF findMatch(norm, list) # <<>> THEN findMatch(norm, list) ELSE trim(rawText))

\* handleUserText, ask_patient_type '1' and ask_os_token, after
\* createMpPreference has returned mp: awaiting_payment and the reminder
\* whatever the request returned, from the context read before the await.
prodAfterMp(P, waId, context, mp) ==
  LET S == schedulePaymentReminder(
             prodSetSession(P, waId, "awaiting_payment", [context EXCEPT !.mp = mp]), waId)
  IN IF mp # "ok" THEN prodSend(ensureCase(S, waId, "mp_failed"), "mpFailed")
     ELSE prodSend(ensureCase(S, waId, "awaiting_payment"), "paymentLinkText")

\* handleUserText, ask_patient_type '1' and ask_os_token: the case row, the
\* payment request, then what follows it; a rejected fetch leaves the
\* handler before that.
prodRequestPayment(P, waId, context, mp) ==
  LET E == ensureCase(P, waId, "awaiting_payment")
  IN IF mp = "throw" THEN E ELSE prodAfterMp(E, waId, context, mp)

\* handleUserText, session.state === 'ask_patient_type'
prodOnAskPatientType(P, waId, norm, session, mp) ==
  IF norm = <<"1">>
  THEN prodRequestPayment(P, waId, [session.context EXCEPT !.patientType = "particular"], mp)
  ELSE IF norm = <<"2">>
  THEN prodSend(prodSetSession(P, waId, "ask_os_name",
                               [session.context EXCEPT !.patientType = "obra_social"]),
                "askOsNameText")
  ELSE prodSend(P, "answer1or2")

\* The confirmation of a payment proof: the confirmed row, the receipt, the
\* session reset and the two replies
prodConfirm(P, waId) ==
  prodSend(prodSend(prodResetSession(ensureCase(P, waId, "confirmed"), waId),
                    "receiptAckText"),
           "finalConfirmedText")

\* handleUserText, the state machine below the natural layer and shortcuts
prodStateMachine(P, waId, norm, rawText, session, mp) ==
  CASE session.state = "menu" -> prodOnMenu(P, waId, norm)
    [] session.state = "turnos" -> prodOnTurnos(P, waId, norm)
    [] session.state = "awaiting_specialty_text" ->
         prodOnFreeText(P, waId, norm, rawText, "turno", SPECIALTIES)
    [] session.state = "estudios" -> prodOnEstudios(P, waId, norm)
    [] session.state = "awaiting_study_text" ->
         prodOnFreeText(P, waId, norm, rawText, "estudio", STUDIES)
    [] session.state = "ask_patient_type" -> prodOnAskPatientType(P, waId, norm, session, mp)
    [] session.state = "ask_os_name" ->
         prodSend(prodSetSession(P, waId, "ask_os_token",
                                 [session.context EXCEPT !.osName = trim(rawText)]),
                  "askOsTokenText")
    [] session.state = "ask_os_token" ->
         prodRequestPayment(P, waId, [session.context EXCEPT !.osToken = trim(rawText)], mp)
    [] session.state = "awaiting_payment" ->
         prodSend(ensureCase(schedulePaymentReminder(P, waId), waId, "awaiting_payment"),
                  "sendProof")
    [] session.state = "handoff" ->
         prodSend(ensureCase(prodResetSession(P, waId), waId, "handoff"), "handoffAck")
    [] OTHER -> prodSend(prodResetSession(P, waId), "menuText")

\* handleUserText below its first two lines, which bind norm and session
prodDispatch(P, waId, rawText, mp, norm, session) ==
  LET lead(X) == ensureCase(X, waId, "lead")
  IN IF isGreeting(norm) /\ session.state = "menu"
     THEN prodSend(lead(P), "greetingReply")
     ELSE IF isThanksOrBye(norm) /\ session.state # "awaiting_payment"
     THEN prodSend(lead(P), "closingReply")
     ELSE IF norm \in {<<"0">>, KwMenu, KwInicio}
     THEN prodSend(lead(prodResetSession(P, waId)), "menuText")
     ELSE IF \E kw \in {HORARIO, DIRECCION, UBIC} : includes(norm, kw)
     THEN prodSend(lead(prodResetSession(P, waId)), "infoContacto")
     ELSE IF \E kw \in {KwObra, KwPrepaga, KwOsde, KwSwiss} : includes(norm, kw)
     THEN prodSend(lead(prodResetSession(P, waId)), "insuranceInfo")
     ELSE IF \E kw \in {KwRecep, KwHumano, PERSONA} : includes(norm, kw)
     THEN prodSend(ensureCase(prodSetSession(P, waId, "handoff", EmptyContext),
                              waId, "handoff"),
                   "handoffPrompt")
     ELSE IF norm \in {KwListo, KwOk, KwDale, KwYa}
     THEN IF session.state = "awaiting_mrturno_done"
          THEN prodSend(prodSetSession(P, waId, "ask_patient_type", session.context),
                        "patientTypePrompt")
          ELSE prodSend(lead(prodResetSession(P, waId)), "menuTextHelp")
     ELSE IF session.state = "awaiting_payment" /\ maybeLooksLikeReceiptText(norm)
     THEN prodConfirm(P, waId)
     ELSE prodStateMachine(P, waId, norm, rawText, session, mp)

\* handleUserText(waId, rawText) of the prod-pack revision; mp is what
\* createMpPreference returns, should the branch call it.
prodHandleUserText(P, waId, rawText, mp) ==
  prodDispatch(P, waId, rawText, mp, normalize(rawText),
               prodGetSession(P.sessions, waId, now))

\* postHandler of the prod-pack revision after its dedup check
prodPostHandler(P, waId, kind, rawText, mp) ==
  IF kind = "media"
  THEN IF prodGetSession(P.sessions, waId, now).state = "awaiting_payment"
       THEN prodConfirm(P, waId)
       ELSE prodSend(ensureCase(P, waId, "lead"), "mediaReceivedMenu")
  ELSE IF trim(rawText) = <<>>
  THEN prodSend(ensureCase(prodResetSession(P, waId), waId, "lead"), "menuText")
  ELSE prodHandleUserText(ensureCase(P, waId, "lead"), waId, rawText, mp)

\* The callback of the reminder timer up to its first await: whether it
\* goes on, and the session it marks as reminded
reminderGoesOn(P, waId) ==
  LET cur == prodGetSession(P.sessions, waId, now)
  IN cur.state = "awaiting_payment" /\ ~cur.context.reminderSent

reminderStart(P, waId) ==
  LET cur == prodGetSession(P.sessions, waId, now)
  IN IF ~reminderGoesOn(P, waId) THEN P
     ELSE prodSetSession(P, waId, "awaiting_payment",
                         [cur.context EXCEPT !.reminderSent = TRUE])

\* The callback of the reminder timer
reminderCallback(P, waId) ==
  IF ~reminderGoesOn(P, waId) THEN P
  ELSE prodSend(ensureCase(reminderStart(P, waId), waId, "awaiting_payment"), "reminder")

\* gc() at time t: expired sessions are deleted and their reminder timers
\* cleared (the dedup entries of this revision are not modelled)
gc(P, t) ==
  LET dead == {w \in DOMAIN P.sessions : sessionExpired(P.sessions[w].updatedAt, t)}
  IN [P EXCEPT
        !.timers = {x \in @ : \A w \in dead : P.sessions[w].context.reminderTimer # x.id},
        !.sessions = MapDelete(@, dead)]

\* Nothing was handled in the last step.
NoProdDone ==
  [wa |-> "", kind |-> "none", raw |-> <<>>, sent |-> <<>>, timer |-> 0,
   s |-> [state |-> "menu", context |-> EmptyContext, updatedAt |-> 0]]

ProdMachine ==
  [sessions |-> psessions, timers |-> timers, timerCount |-> timerCount,
   caseByWa |-> caseByWa, lastRow |-> lastRow, sent |-> <<>>]

\* The state after the handler or callback of P ran up to its end or to an
\* await, what it did, and the executions then suspended
ProdCommitWaiting(P, summary, waiting) ==
  /\ pdone' = [summary EXCEPT !.sent = P.sent]
  /\ psessions' = P.sessions
  /\ timers' = P.timers
  /\ timerCount' = P.timerCount
  /\ caseByWa' = P.caseByWa
  /\ lastRow' = P.lastRow
  /\ pwait' = waiting
  /\ reminders' =
       [w \in Senders |->
          IF prodGetSession(P.sessions, w, now).state # "awaiting_payment" THEN 0
          ELSE IF summary.wa = w /\ InSeq("reminder", P.sent) THEN reminders[w] + 1
          ELSE reminders[w]]

\* The state after the handler or callback of P ran to its end
ProdCommit(P, summary) == ProdCommitWaiting(P, summary, pwait)

\* What createMpPreference may return
MpOutcomes == IF env.mp THEN {"ok", "not_ok", "throw"} ELSE {"missing_mp_token"}

\* The provider delivers a new message and its handler runs to its end.
ProdDeliverUpTo(msgLimit, waId, kind, rawText, mp) ==
  /\ nextMsg < msgLimit
  /\ mp \in MpOutcomes
  /\ nextMsg' = nextMsg + 1
  /\ ProdCommit(prodPostHandler(ProdMachine, waId, kind, rawText, mp),
                [wa |-> waId, kind |-> kind, raw |-> rawText, sent |-> <<>>,
                 timer |-> 0, s |-> prodGetSession(psessions, waId, now)])
  /\ UNCHANGED <<now, env, firstVars, httpVars, call, cepaVars>>

\* The same, the MaxProdMsgs-th message at most
ProdDeliver(waId, kind, rawText, mp) ==
  ProdDeliverUpTo(MaxProdMsgs, waId, kind, rawText, mp)

\* A reminder timer that is due fires and its callback runs to its end.
TimerFires(x) ==
  /\ x \in timers
  /\ x.due <= now
  /\ ProdCommit(reminderCallback([ProdMachine EXCEPT !.timers = @ \ {x}], x.wa),
                [wa |-> x.wa, kind |-> "reminder", raw |-> <<>>, sent |-> <<>>,
                 timer |-> x.id, s |-> prodGetSession(psessions, x.wa, now)])
  /\ UNCHANGED <<now, env, nextMsg, firstVars, httpVars, call, cepaVars>>

\* d ticks pass with no delivery; no timer is due before the end of the
\* step, and gc() runs when it falls due.
ProdAdvanceUpTo(limit, d) ==
  /\ now + d <= limit
  /\ \A x \in timers : x.due >= now + d
  /\ now' = now + d
  /\ IF lastSweepAt(now + d) > now
     THEN ProdCommit(gc(ProdMachine, lastSweepAt(now + d)), NoProdDone)
     ELSE /\ pdone' = NoProdDone
          /\ UNCHANGED <<psessions, timers, timerCount, caseByWa, lastRow, pwait, reminders>>
  /\ UNCHANGED <<env, nextMsg, firstVars, httpVars, call, cepaVars>>

\* The same, up to MaxProdNow
ProdAdvance(d) == ProdAdvanceUpTo(MaxProdNow, d)

ProdText == \E raw \in ProdTexts, mp \in {"ok", "not_ok", "throw", "missing_mp_token"} :
              ProdDeliver(Sender, "text", raw, mp)

ProdMedia == ProdDeliver(Sender, "media", <<>>, "ok")

ProdTimer == \E x \in timers : TimerFires(x)

ProdTime == \E d \in ProdDurations : ProdAdvance(d)

NextProd ==
  \/ ProdText
  \/ ProdMedia
  \/ ProdTimer
  \/ ProdTime

\* The spreadsheet is configured.
InitProd == Init /\ env.gsheet

SpecProd == InitProd /\ [][NextProd]_vars

-----------------------------------------------------------------------------
(* The webhook routes.  The state-first revision (part_003) serves them    *)
(* with the Express handlers verifyHandler and postHandler; the demo       *)
(* revision (part_002) with the request callback of its http server,      *)
(* which keeps its conversations in store.conversations.  A signature      *)
(* header is the sequence of its parts; <<"sha256=", "hmac">> is the       *)
(* HMAC-SHA256 of the request body under the configured app secret.        *)

\* The verify token the operator configures
OperatorToken == "operator_token"

\* part_002: process.env.WA_VERIFY_TOKEN || "change_me_verify_token"
WA_VERIFY_TOKEN(e) ==
  IF e.verifyToken # "" THEN e.verifyToken ELSE "change_me_verify_token"

\* hub.challenge of a verification request
Challenge == "challenge"

\* timingSafeEq(a, b): equal lengths and equal bytes
timingSafeEq(a, b) == Len(a) = Len(b) /\ a = b

\* verifyMetaSignature(rawBodyBuffer, signatureHeader, appSecret)
verifyMetaSignature(signatureHeader, appSecret) ==
  IF ~appSecret THEN TRUE
  ELSE IF signatureHeader = <<>> THEN FALSE
  ELSE IF ~startsWith(signatureHeader, <<"sha256=">>) THEN FALSE
  ELSE timingSafeEq(<<"sha256=", "hmac">>, signatureHeader)

\* verifyHandler(req, res) of the state-first revision: status and body
verifyHandler(e, mode, token) ==
  IF mode = "subscribe" /\ token # "" /\ e.verifyToken # "" /\ token = e.verifyToken
  THEN [status |-> 200, body |-> Challenge]
  ELSE [status |-> 403, body |-> "Forbidden"]

\* GET /api/whatsapp of the demo revision: status and body
demoVerify(e, mode, token) ==
  IF mode = "subscribe" /\ token = WA_VERIFY_TOKEN(e)
  THEN [status |-> 200, body |-> Challenge]
  ELSE [status |-> 403, body |-> "ok_false"]

REPROGRAM == <<"r", "e", "p", "r", "o", "g", "r", "a", "m">>

CAMBIAR == <<"c", "a", "m", "b", "i", "a", "r">>

MOVER == <<"m", "o", "v", "e", "r">>

CANCEL == <<"c", "a", "n", "c", "e", "l">>

ANULAR == <<"a", "n", "u", "l", "a", "r">>

RECEPCION_ACCENT == <<"r", "e", "c", "e", "p", "c", "i", "ó", "n">>

RECEPCION == <<"r", "e", "c", "e", "p", "c", "i", "o", "n">>

RESERV == <<"r", "e", "s", "e", "r", "v">>

SACAR == <<"s", "a", "c", "a", "r">>

\* String.prototype.toLowerCase / toUpperCase of a text
lower(s) == [i \in 1..Len(s) |-> toLowerCase(s[i])]

toUpperCase(c) ==
  IF InSeq(c, LowerAscii) THEN UpperAscii[IndexIn(c, LowerAscii)]
  ELSE IF InSeq(c, LowerAccented) THEN UpperAccented[IndexIn(c, LowerAccented)]
  ELSE c

upper(s) == [i \in 1..Len(s) |-> toUpperCase(s[i])]

\* detectIntent(message)
detectIntent(message) ==
  LET m == trim(lower(message))
      has(k) == includes(m, k)
  IN IF m = <<>> THEN "unknown"
     ELSE IF has(REPROGRAM) \/ has(CAMBIAR) \/ has(MOVER) THEN "reschedule"
     ELSE IF has(CANCEL) \/ has(ANULAR) THEN "cancel"
     ELSE IF has(KwHumano) \/ has(RECEPCION_ACCENT) \/ has(RECEPCION) \/ has(PERSONA) THEN "human"
     ELSE IF has(TURNO) \/ has(RESERV) \/ has(SACAR) THEN "reserve"
     ELSE IF m = <<"1">> THEN "reserve"
     ELSE IF m = <<"2">> THEN "reschedule"
     ELSE IF m = <<"3">> THEN "cancel"
     ELSE IF m = <<"4">> THEN "human"
     ELSE "unknown"

\* CLINIC.deposit_obrasocial
deposit_obrasocial == 5000

\* CLINIC.deposit_other
deposit_other == 10000

\* convo.state of a new conversation: {}
EmptyState ==
  [stage |-> "", service |-> <<>>, location |-> <<>>, coverage |-> "",
   slots |-> FALSE, appointmentId |-> 0]

\* getOrCreateConversation(clinicId, phone): the store with the conversation
getOrCreateConversation(D, phone) ==
  IF phone \in DOMAIN D.conv THEN D
  ELSE [D EXCEPT !.conv = MapSet(@, phone, [state |-> EmptyState, last_intent |-> ""])]

\* updateConversation(key, patch), patch = { state, last_intent }
updateConversation(D, key, state, intent) ==
  IF key \notin DOMAIN D.conv THEN D
  ELSE [D EXCEPT !.conv = MapSet(@, key, [state |-> state, last_intent |-> intent])]

\* createHeldAppointment(...): store.appointments.unshift(appt)
createHeldAppointment(D, phone, state, amount, slot) ==
  [D EXCEPT !.appts =
     <<[id |-> Len(D.appts) + 1, user_phone |-> phone, service |-> state.service,
        location |-> state.location, coverage |-> state.coverage,
        deposit_amount |-> amount, slot |-> slot, status |-> "held",
        payment_status |-> "unpaid", payment_ref |-> ""]>> \o @]

\* markAppointmentPaid with the look-up by id replaced by the newest entry
markNewestAppointmentPaid(D, appointmentId, paymentRef) ==
  IF D.appts = <<>> THEN D
  ELSE [D EXCEPT !.appts[1] =
          [@ EXCEPT !.payment_status = "paid", !.status = "confirmed",
                    !.payment_ref = IF paymentRef # "" THEN paymentRef ELSE "demo-pay"]]

\* markAppointmentPaid(appointmentId, paymentRef): the first entry with the
\* id, if there is one
markAppointmentPaid(D, appointmentId, paymentRef) ==
  LET found == {i \in 1..Len(D.appts) : D.appts[i].id = appointmentId}
      idx == CHOOSE i \in found : \A j \in found : i <= j
  IN IF found = {} THEN D
     ELSE [D EXCEPT !.appts[idx] =
             [@ EXCEPT !.payment_status = "paid", !.status = "confirmed",
                       !.payment_ref = IF paymentRef # "" THEN paymentRef ELSE "demo-pay"]]

\* createHandoff(phone, reason, context): store.handoffs.unshift(h)
createHandoff(D) == [D EXCEPT !.handoffs = @ + 1]

\* return [...]: the replies of handleIncomingText
reply(D, msgs) == [D EXCEPT !.replies = msgs]

EcoDoppler == <<"E", "c", "o", "D", "o", "p", "p", "l", "e", "r">>

Holter == <<"H", "o", "l", "t", "e", "r">>

ECG == <<"E", "C", "G">>

Consulta == <<"C", "o", "n", "s", "u", "l", "t", "a">>

Centro == <<"C", "e", "n", "t", "r", "o">>

Lujan == <<"L", "u", "j", "á", "n">>

\* handleIncomingText, stage reserve_service
onReserveService(D, key, msg) ==
  LET service == CASE msg = <<"1">> -> EcoDoppler
                   [] msg = <<"2">> -> Holter
                   [] msg = <<"3">> -> ECG
                   [] msg = <<"4">> -> Consulta
                   [] OTHER -> IF Len(msg) > 2 THEN msg ELSE <<>>
  IN IF service = <<>> THEN reply(D, <<"chooseService">>)
     ELSE reply(updateConversation(D, key,
                  [EmptyState EXCEPT !.stage = "reserve_location", !.service = service],
                  "reserve"),
                <<"askLocation">>)

\* handleIncomingText, stage reserve_location
onReserveLocation(D, key, state, msg) ==
  LET location == IF msg = <<"1">> THEN Centro ELSE IF msg = <<"2">> THEN Lujan ELSE msg
  IN IF location = <<>> THEN reply(D, <<"chooseLocation">>)
     ELSE reply(updateConversation(D, key,
                  [EmptyState EXCEPT !.stage = "reserve_coverage", !.service = state.service,
                                     !.location = location],
                  "reserve"),
                <<"askCoverage">>)

\* handleIncomingText, stage reserve_coverage
onReserveCoverage(D, key, state, msg) ==
  LET coverage == IF msg = <<"1">> THEN "obra_social"
                  ELSE IF msg = <<"2">> THEN "particular"
                  ELSE IF includes(lower(msg), KwObra) THEN "obra_social"
                  ELSE "particular"
  IN reply(updateConversation(D, key,
             [EmptyState EXCEPT !.stage = "reserve_slot", !.service = state.service,
                                !.location = state.location, !.coverage = coverage,
                                !.slots = TRUE],
             "reserve"),
           <<"offerSlots">>)

\* handleIncomingText, stage reserve_slot
onReserveSlot(D, phone, key, state, msg) ==
  LET pick == upper(msg)
      idx == IF pick = <<"A">> THEN 0 ELSE IF pick = <<"B">> THEN 1
             ELSE IF pick = <<"C">> THEN 2 ELSE -1
      amount == IF state.coverage = "obra_social" THEN deposit_obrasocial ELSE deposit_other
      A == createHeldAppointment(D, phone, state, amount, idx)
  IN IF idx < 0 THEN reply(D, <<"chooseSlot">>)
     ELSE reply(updateConversation(A, key,
                  [EmptyState EXCEPT !.stage = "await_payment",
                                     !.appointmentId = Len(A.appts)],
                  "reserve"),
                <<"payLink">>)

\* handleIncomingText, stage menu
onDemoMenu(D, key, intent) ==
  IF intent \in {"reserve", "reschedule", "cancel"}
  THEN reply(updateConversation(D, key,
               [EmptyState EXCEPT !.stage = IF intent = "reserve" THEN "reserve_service"
                                            ELSE intent],
               intent),
             <<IF intent = "reserve" THEN "askService"
               ELSE IF intent = "reschedule" THEN "askDniToReschedule"
               ELSE "askDniToCancel">>)
  ELSE reply(D, <<"notUnderstood", "menu">>)

\* handleIncomingText(phone, textIn): the store after it, and its replies
handleIncomingText(D0, phone, textIn) ==
  LET D == getOrCreateConversation(D0, phone)
      key == phone
      state == D.conv[key].state
      msg == trim(textIn)
      intent == detectIntent(msg)
  IN IF intent = "human"
     THEN reply(updateConversation(createHandoff(D), key, EmptyState, "human"),
                <<"handoff">>)
     ELSE IF state.stage = ""
     THEN reply(updateConversation(D, key, [EmptyState EXCEPT !.stage = "menu"], intent),
                <<"menu">>)
     ELSE CASE state.stage = "menu" -> onDemoMenu(D, key, intent)
            [] state.stage = "reserve_service" -> onReserveService(D, key, msg)
            [] state.stage = "reserve_location" -> onReserveLocation(D, key, state, msg)
            [] state.stage = "reserve_coverage" -> onReserveCoverage(D, key, state, msg)
            [] state.stage = "reserve_slot" -> onReserveSlot(D, phone, key, state, msg)
            [] state.stage = "await_payment" -> reply(D, <<"awaitingPayment">>)
            [] OTHER ->
                 reply(updateConversation(D, key, [EmptyState EXCEPT !.stage = "menu"], ""),
                       <<"menu">>)

\* What the web front may be configured with
WebEnvs == [verifyToken : {"", OperatorToken}, appSecret : BOOLEAN]

\* hub.mode and hub.verify_token of a verification request ("" when absent)
Modes == {"subscribe", "unsubscribe"}

QueryTokens == {"", OperatorToken, "change_me_verify_token"}

\* x-hub-signature-256 of a POST: absent, without the sha256= prefix, the
\* HMAC under another key, the HMAC under the app secret
Signatures == {<<>>, <<"hmac">>, <<"sha256=", "other">>, <<"sha256=", "hmac">>}

TxtFour == <<"4">>

\* The texts sent to the state-first revision over its webhook route
HttpTexts == {TxtOne, TxtListo}

\* The texts sent to the demo revision
DemoTexts == {TxtOne, TxtFour, TxtHola}

\* What the state-first postHandler does in the step of the request, after
\* res.sendStatus(200): read off the maps it changed
firstEffects ==
  (IF seenMsg' # seenMsg THEN <<"dedup">> ELSE <<>>)
    \o (IF sessions' # sessions THEN <<"session">> ELSE <<>>)
    \o (IF caseStore' # caseStore \/ sheetCases' # sheetCases THEN <<"ledger">> ELSE <<>>)
    \o (IF mpPrefs' # mpPrefs THEN <<"payment">> ELSE <<>>)
    \o (IF done'.sent # <<>> THEN <<"send">> ELSE <<>>)

\* A request that leaves every map of both revisions as it was
OnlyResponds ==
  /\ done' = NoDone
  /\ lastDelivery' = NoDelivery
  /\ UNCHANGED <<now, env, nextMsg, sessions, caseStore, sheetCases, seenMsg, tasks, idCount,
                 sheetFailures, overlaps, mpPrefs, mpPaid, returned, redeliverable, prodVars,
                 henv, conversations, appointments, handoffs, call, cepaVars>>

\* GET on the webhook route of the state-first revision
VerifyFirst(mode, token) ==
  /\ hdone' = [server |-> "first", method |-> "GET", mode |-> mode, token |-> token,
               sig |-> <<>>, json |-> TRUE,
               status |-> verifyHandler(henv, mode, token).status,
               body |-> verifyHandler(henv, mode, token).body,
               events |-> <<"respond">>]
  /\ OnlyResponds

\* POST on the webhook route of the state-first revision, refused: 401 for
\* the signature, 400 for the body
PostFirstRefused(sig, json) ==
  /\ ~verifyMetaSignature(sig, henv.appSecret) \/ ~json
  /\ hdone' = [server |-> "first", method |-> "POST", mode |-> "", token |-> "",
               sig |-> sig, json |-> json,
               status |-> IF ~verifyMetaSignature(sig, henv.appSecret) THEN 401 ELSE 400,
               body |-> IF ~verifyMetaSignature(sig, henv.appSecret)
                        THEN "invalid_signature" ELSE "invalid_json",
               events |-> <<"respond">>]
  /\ OnlyResponds

\* POST on the webhook route of the state-first revision, accepted: 200 is
\* sent, then the message is handled up to its first await
PostFirstAccepted(sig, waId, kind, rawText) ==
  /\ verifyMetaSignature(sig, henv.appSecret)
  /\ nextMsg < MaxHttpMsgs
  /\ tasks = <<>>
  /\ nextMsg' = nextMsg + 1
  /\ postHandler(nextMsg + 1, waId, kind, rawText, FALSE)
  /\ hdone' = [server |-> "first", method |-> "POST", mode |-> "", token |-> "",
               sig |-> sig, json |-> TRUE, status |-> 200, body |-> "OK",
               events |-> <<"respond">> \o firstEffects]
  /\ UNCHANGED <<now, env, mpPaid, sheetFailures, overlaps, prodVars,
                 henv, conversations, appointments, handoffs, call, cepaVars>>

\* GET /api/whatsapp of the demo revision
VerifyDemo(mode, token) ==
  /\ hdone' = [server |-> "demo", method |-> "GET", mode |-> mode, token |-> token,
               sig |-> <<>>, json |-> TRUE,
               status |-> demoVerify(henv, mode, token).status,
               body |-> demoVerify(henv, mode, token).body,
               events |-> <<"respond">>]
  /\ OnlyResponds

\* The store of the demo revision
DemoMachine ==
  [conv |-> conversations, appts |-> appointments, handoffs |-> handoffs, replies |-> <<>>]

\* The end of POST /api/whatsapp of the demo revision: the replies are sent
\* one by one, then json(res, 200, { ok: true })
DemoCommit(D, sig, json) ==
  /\ conversations' = D.conv
  /\ appointments' = D.appts
  /\ handoffs' = D.handoffs
  /\ hdone' = [server |-> "demo", method |-> "POST", mode |-> "", token |-> "",
               sig |-> sig, json |-> json, status |-> 200, body |-> "ok_true",
               events |-> (IF D.conv # conversations \/ D.appts # appointments
                              \/ D.handoffs # handoffs
                           THEN <<"session">> ELSE <<>>)
                            \o [i \in 1..Len(D.replies) |-> "send"]
                            \o <<"respond">>]
  /\ done' = NoDone
  /\ lastDelivery' = NoDelivery
  /\ UNCHANGED <<now, env, sessions, caseStore, sheetCases, seenMsg, tasks, idCount,
                 sheetFailures, overlaps, mpPrefs, mpPaid, returned, redeliverable, prodVars,
                 henv, call, cepaVars>>

\* POST /api/whatsapp of the demo revision with a text message: the header
\* is not read; safeJsonParse(raw) || {} makes an invalid body an event
\* without a message.  The replies are awaited one after another and the
\* whole exchange is taken as one step.
PostDemoTextUpTo(msgLimit, sig, phone, textIn) ==
  /\ nextMsg < msgLimit
  /\ nextMsg' = nextMsg + 1
  /\ DemoCommit(handleIncomingText(DemoMachine, phone, textIn), sig, TRUE)

\* The same, the MaxHttpMsgs-th message at most
PostDemoText(sig, phone, textIn) == PostDemoTextUpTo(MaxHttpMsgs, sig, phone, textIn)

\* POST /api/whatsapp of the demo revision with a body that carries no text
\* message: an invalid body, or an event that is no message
PostDemoOther(sig, json) ==
  /\ UNCHANGED nextMsg
  /\ DemoCommit(DemoMachine, sig, json)

VerifyFirstAny == \E mode \in Modes, token \in QueryTokens : VerifyFirst(mode, token)

PostFirstBad == \E sig \in Signatures, json \in BOOLEAN : PostFirstRefused(sig, json)

PostFirstGood ==
  \E sig \in Signatures, raw \in HttpTexts : PostFirstAccepted(sig, Sender, "text", raw)

AwaitHttp == Resume(1, "ok")

VerifyDemoAny == \E mode \in Modes, token \in QueryTokens : VerifyDemo(mode, token)

PostDemoMessage == \E sig \in Signatures, raw \in DemoTexts : PostDemoText(sig, Sender, raw)

PostDemoEvent == \E sig \in Signatures, json \in BOOLEAN : PostDemoOther(sig, json)

NextHttp ==
  \/ VerifyFirstAny
  \/ PostFirstBad
  \/ PostFirstGood
  \/ AwaitHttp
  \/ VerifyDemoAny
  \/ PostDemoMessage
  \/ PostDemoEvent

\* The process starts with any configuration of the web front; the
\* spreadsheet and the payment provider are not configured.
InitHttp ==
  /\ now = 0
  /\ env = [gsheet |-> FALSE, mp |-> FALSE]
  /\ sessions = EmptyObj
  /\ caseStore = EmptyObj
  /\ sheetCases = <<>>
  /\ seenMsg = EmptyObj
  /\ tasks = <<>>
  /\ idCount = [w \in Senders |-> 0]
  /\ nextMsg = 0
  /\ mpPrefs = {}
  /\ mpPaid = {}
  /\ sheetFailures = 0
  /\ overlaps = 0
  /\ done = NoDone
  /\ returned = [w \in Senders |-> {}]
  /\ redeliverable = EmptyObj
  /\ lastDelivery = NoDelivery
  /\ psessions = EmptyObj
  /\ timers = {}
  /\ timerCount = 0
  /\ caseByWa = EmptyObj
  /\ lastRow = EmptyObj
  /\ pdone = NoProdDone
  /\ pwait = <<>>
  /\ reminders = [w \in Senders |-> 0]
  /\ henv \in WebEnvs
  /\ conversations = EmptyObj
  /\ appointments = <<>>
  /\ handoffs = 0
  /\ hdone = NoExchange
  /\ call = NoCall
  /\ csessions = EmptyObj
  /\ cdone = NoCepaDone

SpecHttp == InitHttp /\ [][NextHttp]_vars

-----------------------------------------------------------------------------
(* Long conversations of one sender with the state-first revision: the    *)
(* spreadsheet is configured and answers every call, the messages arrive  *)
(* one after the other.                                                   *)

\* The texts of a booking flow and of the way back to the menu
FlowTexts == {TxtOne, TxtTwo, TxtListo, TxtOsde, TxtOpId}

DeliverTextFlow == \E raw \in FlowTexts : Deliver(Sender, "text", raw, MaxFlowMsgs, 0, FALSE)

\* An awaited call completes; the payment provider may refuse.
AwaitFlow == \E o \in {"ok", "not_ok"} : Resume(1, o)

NextFlow ==
  \/ DeliverTextFlow
  \/ AwaitFlow

InitFlow == Init /\ env.gsheet

SpecFlow == InitFlow /\ [][NextFlow]_vars

-----------------------------------------------------------------------------
(* The helper functions on their own: each action calls one of them on    *)
(* arguments drawn from a bounded set and records the call.               *)

\* setSession(waId, patch) of the prod-pack revision, over objects with the
\* keys they own: next = { ...cur, ...patch, updatedAt: Date.now() }
prodSetSessionPatch(sess, waId, patch, t) ==
  LET cur == IF waId \in DOMAIN sess THEN sess[waId]
             ELSE [state |-> "menu", context |-> EmptyObj, updatedAt |-> t]
  IN MapSet(sess, waId, Spread(Spread(cur, patch), [updatedAt |-> t]))

\* The characters of the texts given to normalize: a letter, an accented
\* capital, a blank and a free-standing combining mark
NormChars == {"a", "Á", " ", CombiningMark}

NormTexts == UNION {[1..n -> NormChars] : n \in 0..MaxTextLen}

\* The texts given to the operation-id extraction
TxtSixDigits == <<"1", "2", "3", "4", "5", "6">>

TxtTenDigits == <<"1", "2", "3", "4", "5", "6", "7", "8", "9", "0">>

TxtOpShort == <<"o", "p", " ", "1", "2", "3", "4", "5">>

TxtOpColon == <<"O", "p", ":", "#", "6", "5", "4", "3", "2", "1">>

TxtPagoSix == <<"p", "a", "g", "u", "e", " ", "1", "2", "3", "4", "5", "6">>

TxtGlued == <<"i", "d", "1", "2", "3", "4", "5", "6">>

OpTexts ==
  {<<>>, TxtHola, TxtListo, TxtOpId, TxtToken, TxtSixDigits, TxtTenDigits, TxtOpShort,
   TxtOpColon, TxtPagoSix, TxtGlued}

\* The contexts a session holds before a call, and the patches of a call
FnContexts ==
  {EmptyObj,
   [flow |-> "turno", label |-> LabelTurno],
   [flow |-> "estudio", label |-> LabelEstudios, patientType |-> "obra_social"]}

FnPatches ==
  {EmptyObj,
   [patientType |-> "particular"],
   [flow |-> "turno", mpLink |-> "init_point"]}

FnStates == {"ask_os_name", "handoff"}

\* The session of the sender before a call: none, or one written at time 0
FnSessions ==
  {[has |-> FALSE, state |-> "menu", ctx |-> EmptyObj]}
    \cup {[has |-> TRUE, state |-> st, ctx |-> c] :
            st \in {"menu", "ask_patient_type"}, c \in FnContexts}

CallNormalize(s) ==
  /\ call' = [fn |-> "normalize", arg |-> s, res |-> normalize(s)]
  /\ UNCHANGED <<now, env, nextMsg, firstVars, prodVars, httpVars, cepaVars>>

CallExtractOpId(text) ==
  /\ call' = [fn |-> "extractOpId", arg |-> text, res |-> extractOpId(text)]
  /\ UNCHANGED <<now, env, nextMsg, firstVars, prodVars, httpVars, cepaVars>>

CallExtractOperationId(text) ==
  /\ call' = [fn |-> "extractOperationId", arg |-> text, res |-> extractOperationId(text)]
  /\ UNCHANGED <<now, env, nextMsg, firstVars, prodVars, httpVars, cepaVars>>

\* maybeLooksLikeReceiptText(norm) as handleUserText of the prod-pack calls
\* it in awaiting_payment, with norm = normalize(rawText): whether the
\* message is taken as the proof of payment
CallMaybeLooksLikeReceiptText(text) ==
  /\ call' = [fn |-> "maybeLooksLikeReceiptText", arg |-> text,
              res |-> maybeLooksLikeReceiptText(normalize(text))]
  /\ UNCHANGED <<now, env, nextMsg, firstVars, prodVars, httpVars, cepaVars>>

\* setSession(waId, state, ctxPatch) of the state-first revision at time t
CallSetSession(old, state, ctxPatch, t) ==
  LET sess == IF old.has
              THEN MapSet(EmptyObj, Sender,
                          [state |-> old.state, ctx |-> old.ctx, updatedAt |-> 0])
              ELSE EmptyObj
  IN /\ call' = [fn |-> "setSession", before |-> old.ctx, state |-> state,
                 patch |-> ctxPatch, t |-> t,
                 res |-> [state |-> setSession(sess, Sender, state, ctxPatch, t)[Sender].state,
                          ctx |-> setSession(sess, Sender, state, ctxPatch, t)[Sender].ctx,
                          updatedAt |->
                            setSession(sess, Sender, state, ctxPatch, t)[Sender].updatedAt]]
     /\ UNCHANGED <<now, env, nextMsg, firstVars, prodVars, httpVars, cepaVars>>

\* setSession(waId, { state, context: ctxPatch }) of the prod-pack revision
\* at time t
CallProdSetSession(old, state, ctxPatch, t) ==
  LET sess == IF old.has
              THEN MapSet(EmptyObj, Sender,
                          [state |-> old.state, context |-> old.ctx, updatedAt |-> 0])
              ELSE EmptyObj
      patch == [state |-> state, context |-> ctxPatch]
  IN /\ call' = [fn |-> "prodSetSession", before |-> old.ctx, state |-> state,
                 patch |-> ctxPatch, t |-> t,
                 res |-> [state |-> prodSetSessionPatch(sess, Sender, patch, t)[Sender].state,
                          ctx |-> prodSetSessionPatch(sess, Sender, patch, t)[Sender].context,
                          updatedAt |->
                            prodSetSessionPatch(sess, Sender, patch, t)[Sender].updatedAt]]
     /\ UNCHANGED <<now, env, nextMsg, firstVars, prodVars, httpVars, cepaVars>>

Normalizes == \E s \in NormTexts : CallNormalize(s)

ExtractsOpId == \E text \in OpTexts : CallExtractOpId(text)

ExtractsOperationId == \E text \in OpTexts : CallExtractOperationId(text)

LooksLikeReceipt == \E text \in OpTexts : CallMaybeLooksLikeReceiptText(text)

SetsSession ==
  \E old \in FnSessions, st \in FnStates, p \in FnPatches, t \in {0, 1} :
    CallSetSession(old, st, p, t)

ProdSetsSession ==
  \E old \in FnSessions, st \in FnStates, p \in FnPatches, t \in {0, 1} :
    CallProdSetSession(old, st, p, t)

NextFn ==
  \/ Normalizes
  \/ ExtractsOpId
  \/ ExtractsOperationId
  \/ LooksLikeReceipt
  \/ SetsSession
  \/ ProdSetsSession

SpecFn == Init /\ [][NextFn]_vars

-----------------------------------------------------------------------------
(* Two senders talk to the state-first revision at once: a message of     *)
(* one may arrive while the handling of a message of the other is         *)
(* suspended at an await.                                                 *)

TwoTexts == {TxtOne, TxtListo}

DeliverTextTwo ==
  \E w \in Senders, raw \in TwoTexts : Deliver(w, "text", raw, MaxTwoMsgs, MaxOverlaps, FALSE)

DeliverMediaTwo == \E w \in Senders : Deliver(w, "media", <<>>, MaxTwoMsgs, MaxOverlaps, FALSE)

AwaitTwo == \E i \in 1..(MaxOverlaps + 1), o \in {"ok", "failed", "not_ok"} : Resume(i, o)

NextTwo ==
  \/ DeliverTextTwo
  \/ DeliverMediaTwo
  \/ AwaitTwo

SpecTwo == Init /\ [][NextTwo]_vars

-----------------------------------------------------------------------------
(* One deployment: the process runs one server file, the state-first      *)
(* revision or the prod-pack revision, and every message goes to it.      *)

\* The texts of a booking flow up to the payment proof
EitherTexts == {TxtOne, TxtTwo, TxtListo, TxtOsde, TxtOpId}

\* The process runs the state-first revision: no message yet, or its dedup
\* map holds one
FirstDeployed == nextMsg = 0 \/ seenMsg # EmptyObj

\* The process runs the prod-pack revision: no message yet, or its case
\* cache holds a sender
ProdDeployed == nextMsg = 0 \/ caseByWa # EmptyObj

EitherFirstText ==
  /\ FirstDeployed
  /\ \E raw \in EitherTexts : Deliver(Sender, "text", raw, MaxMsgs, 0, FALSE)

EitherFirstMedia ==
  /\ FirstDeployed
  /\ Deliver(Sender, "media", <<>>, MaxMsgs, 0, FALSE)

EitherFirstAwait == \E o \in {"ok", "failed", "not_ok"} : Resume(1, o)

EitherProdText ==
  /\ ProdDeployed
  /\ \E raw \in EitherTexts, mp \in {"ok", "not_ok", "missing_mp_token"} :
       ProdDeliver(Sender, "text", raw, mp)

EitherProdMedia ==
  /\ ProdDeployed
  /\ ProdDeliver(Sender, "media", <<>>, "ok")

EitherProdTimer == \E x \in timers : TimerFires(x)

EitherProdTime ==
  /\ caseByWa # EmptyObj
  /\ \E d \in ProdDurations : ProdAdvance(d)

NextEither ==
  \/ EitherFirstText
  \/ EitherFirstMedia
  \/ EitherFirstAwait
  \/ EitherProdText
  \/ EitherProdMedia
  \/ EitherProdTimer
  \/ EitherProdTime

SpecEither == Init /\ [][NextEither]_vars

-----------------------------------------------------------------------------
(* Long conversations of one sender with the prod-pack revision: both     *)
(* collaborators are configured and the payment link is always created.   *)

\* The texts of a booking flow, of the hand-off and of the payment proof
LongTexts == {TxtOne, TxtListo, TxtRecepcion, TxtOpId}

LongText == \E raw \in LongTexts : ProdDeliverUpTo(MaxLongMsgs, Sender, "text", raw, "ok")

LongTimer == \E x \in timers : TimerFires(x)

LongTime == \E d \in ProdDurations : ProdAdvance(d)

NextLong ==
  \/ LongText
  \/ LongTimer
  \/ LongTime

InitLong == Init /\ env = [gsheet |-> TRUE, mp |-> TRUE]

SpecLong == InitLong /\ [][NextLong]_vars

-----------------------------------------------------------------------------
(* A conversation of the state-first revision that reaches ask_os_name    *)
(* and answers it: with a name, a name between spaces, or digits only.    *)

\* ' OSDE '
TxtOsdePadded == <<" ", "O", "S", "D", "E", " ">>

\* '12345'
TxtFiveDigits == <<"1", "2", "3", "4", "5">>

OsTexts == {TxtOne, TxtTwo, TxtListo, TxtOsde, TxtOsdePadded, TxtFiveDigits, TxtSixDigits}

DeliverTextOs == \E raw \in OsTexts : Deliver(Sender, "text", raw, MaxOsMsgs, 0, FALSE)

AwaitOs == \E o \in {"ok", "failed", "not_ok"} : Resume(1, o)

NextOs ==
  \/ DeliverTextOs
  \/ AwaitOs

SpecOs == Init /\ [][NextOs]_vars

-----------------------------------------------------------------------------
(* The prod-pack revision with its awaits: a handler may stay suspended   *)
(* at createMpPreference, and the callback of the reminder timer at       *)
(* ensureCase and at sendText, while other messages are handled and       *)
(* timers fire.  The other handlers run from start to end.                *)

WaitTexts == {TxtOne, TxtListo, TxtOpId}

\* The handler of the text reaches createMpPreference: a rejected fetch and
\* a fulfilled one end differently.
callsMp(waId, rawText) ==
  prodPostHandler(ProdMachine, waId, "text", rawText, "throw")
    # prodPostHandler(ProdMachine, waId, "text", rawText, "ok")

\* The context the handler hands on from its session snapshot
mpContext(session, rawText) ==
  IF session.state = "ask_patient_type"
  THEN [session.context EXCEPT !.patientType = "particular"]
  ELSE [session.context EXCEPT !.osToken = trim(rawText)]

Waiting(kind, at, waId, rawText, session, timer) ==
  [kind |-> kind, at |-> at, wa |-> waId, raw |-> rawText, s |-> session, timer |-> timer]

waitingKinds == {pwait[i].kind : i \in 1..Len(pwait)}

\* A message is handled from start to end, its awaits answered at once.
WaitDeliver(waId, rawText) == ProdDeliverUpTo(MaxWaitMsgs, waId, "text", rawText, "ok")

\* A message whose handler calls createMpPreference is handled up to that
\* await: the case rows are written, the session is not.
MpSuspends(waId, rawText) ==
  /\ nextMsg < MaxWaitMsgs
  /\ "mp" \notin waitingKinds
  /\ callsMp(waId, rawText)
  /\ nextMsg' = nextMsg + 1
  /\ ProdCommitWaiting(
       prodPostHandler(ProdMachine, waId, "text", rawText, "throw"),
       [wa |-> waId, kind |-> "text_await", raw |-> rawText, sent |-> <<>>, timer |-> 0,
        s |-> prodGetSession(psessions, waId, now)],
       Append(pwait, Waiting("mp", "createMpPreference", waId, rawText,
                             prodGetSession(psessions, waId, now), 0)))
  /\ UNCHANGED <<now, env, firstVars, httpVars, call, cepaVars>>

\* createMpPreference returns and the handler runs to its end.
MpResumes(i, mp) ==
  /\ i \in 1..Len(pwait)
  /\ pwait[i].kind = "mp"
  /\ ProdCommitWaiting(
       prodAfterMp(ProdMachine, pwait[i].wa, mpContext(pwait[i].s, pwait[i].raw), mp),
       [wa |-> pwait[i].wa, kind |-> "text", raw |-> pwait[i].raw, sent |-> <<>>,
        timer |-> 0, s |-> pwait[i].s],
       RemoveAt(pwait, i))
  /\ UNCHANGED <<now, env, nextMsg, firstVars, httpVars, call, cepaVars>>

\* A reminder timer that is due fires: its callback returns at once, or marks
\* the session as reminded and is suspended at ensureCase.
TimerStarts(x) ==
  /\ x \in timers
  /\ x.due <= now
  /\ "reminder" \notin waitingKinds
  /\ LET P == [ProdMachine EXCEPT !.timers = @ \ {x}]
         summary == [wa |-> x.wa, kind |-> "reminder", raw |-> <<>>, sent |-> <<>>,
                     timer |-> x.id, s |-> prodGetSession(psessions, x.wa, now)]
     IN IF reminderGoesOn(P, x.wa)
        THEN ProdCommitWaiting(
               reminderStart(P, x.wa), [summary EXCEPT !.kind = "reminder_await"],
               Append(pwait, Waiting("reminder", "ensureCase", x.wa, <<>>,
                                     prodGetSession(psessions, x.wa, now), x.id)))
        ELSE ProdCommit(P, summary)
  /\ UNCHANGED <<now, env, nextMsg, firstVars, httpVars, call, cepaVars>>

\* The callback's ensureCase returns: its row is in the sheet, and the
\* callback is suspended at sendText.
CallbackRow(i) ==
  /\ i \in 1..Len(pwait)
  /\ pwait[i].kind = "reminder" /\ pwait[i].at = "ensureCase"
  /\ ProdCommitWaiting(
       ensureCase(ProdMachine, pwait[i].wa, "awaiting_payment"),
       [wa |-> pwait[i].wa, kind |-> "reminder_await", raw |-> <<>>, sent |-> <<>>,
        timer |-> pwait[i].timer, s |-> pwait[i].s],
       [pwait EXCEPT ![i].at = "sendText"])
  /\ UNCHANGED <<now, env, nextMsg, firstVars, httpVars, call, cepaVars>>

\* The callback's sendText: the reminder goes out and the callback ends.
CallbackSends(i) ==
  /\ i \in 1..Len(pwait)
  /\ pwait[i].kind = "reminder" /\ pwait[i].at = "sendText"
  /\ ProdCommitWaiting(
       prodSend(ProdMachine, "reminder"),
       [wa |-> pwait[i].wa, kind |-> "reminder", raw |-> <<>>, sent |-> <<>>,
        timer |-> pwait[i].timer, s |-> pwait[i].s],
       RemoveAt(pwait, i))
  /\ UNCHANGED <<now, env, nextMsg, firstVars, httpVars, call, cepaVars>>

WaitText == \E raw \in WaitTexts : WaitDeliver(Sender, raw)

WaitRequest == \E raw \in WaitTexts : MpSuspends(Sender, raw)

WaitAnswer == \E i \in 1..2, mp \in {"ok", "not_ok"} : MpResumes(i, mp)

WaitTimer == \E x \in timers : TimerStarts(x)

WaitRow == \E i \in 1..2 : CallbackRow(i)

WaitReminder == \E i \in 1..2 : CallbackSends(i)

WaitTime == \E d \in ProdDurations : ProdAdvanceUpTo(MaxWaitNow, d)

NextWait ==
  \/ WaitText
  \/ WaitRequest
  \/ WaitAnswer
  \/ WaitTimer
  \/ WaitRow
  \/ WaitReminder
  \/ WaitTime

InitWait == Init /\ env = [gsheet |-> TRUE, mp |-> TRUE]

SpecWait == InitWait /\ [][NextWait]_vars

-----------------------------------------------------------------------------
(* The keyword front: menu, lists of studies and specialties matched by    *)
(* number or keyword, booking link, LISTO, receipt by attachment.  Its     *)
(* sessions are kept without updatedAt: the sweep of sessions idle for 45  *)
(* minutes is left out, and so is the outcome of the outbound calls.       *)

\* STUDIES: the number and the keywords of each entry; 10 is "Otro (escribilo)"
CEPA_STUDIES ==
  << [n |-> <<"1">>,
       kw |-> <<<<"e", "c", "o">>, <<"e", "c", "o", "g", "r", "a", "f", "i", "a">>,
              <<"5", "d">>>>],
     [n |-> <<"2">>,
       kw |-> <<<<"d", "o", "p", "p", "l", "e", "r">>,
              <<"e", "c", "o", "d", "o", "p", "p", "l", "e", "r">>,
                     <<"e", "c", "o", "c", "a", "r", "d", "i", "o", "g", "r", "a", "m", "a">>>>],
     [n |-> <<"3">>,
       kw |-> <<<<"h", "o", "l", "t", "e", "r">>>>],
     [n |-> <<"4">>,
       kw |-> <<<<"e", "c", "g">>, <<"e", "l", "e", "c", "t", "r", "o">>>>],
     [n |-> <<"5">>,
       kw |-> <<<<"l", "a", "b", "o", "r", "a", "t", "o", "r", "i", "o">>,
              <<"a", "n", "a", "l", "i", "s", "i", "s">>, <<"s", "a", "n", "g", "r", "e">>>>],
     [n |-> <<"6">>,
       kw |-> <<<<"m", "a", "m", "o">>, <<"m", "a", "m", "o", "g", "r", "a", "f", "i", "a">>>>],
     [n |-> <<"7">>,
       kw |-> <<<<"m", "a", "p", "a">>, <<"p", "r", "e", "s", "i", "o", "n">>,
              <<"p", "r", "e", "s", "u", "r", "o">>>>],
     [n |-> <<"8">>,
       kw |-> <<<<"e", "r", "g", "o">>, <<"e", "r", "g", "o", "m", "e", "t", "r", "i", "a">>>>],
     [n |-> <<"9">>,
       kw |-> <<<<"a", "u", "d", "i", "o">>,
              <<"a", "u", "d", "i", "o", "m", "e", "t", "r", "i", "a">>,
                     <<"b", "e", "r", "a">>, <<"o", "e", "a">>, <<"i", "m", "p", "e", "d">>>>],
     [n |-> <<"1", "0">>,
       kw |-> <<>>] >>

\* SPECIALTIES: 7 is "Otra (escribi el nombre)"
CEPA_SPECIALTIES ==
  << [n |-> <<"1">>,
       kw |-> <<<<"g", "i", "n", "e">>, <<"o", "b", "s", "t", "e">>, <<"p", "a", "p">>,
              <<"p", "a", "p", "a", "n", "i", "c", "o">>, <<"c", "o", "l", "p", "o">>>>],
     [n |-> <<"2">>,
       kw |-> <<<<"p", "e", "d", "i">>, <<"n", "i", "n", "o">>, <<"n", "i", "ñ", "o">>,
              <<"i", "n", "f", "a", "n", "t", "i", "l">>>>],
     [n |-> <<"3">>,
       kw |-> <<<<"c", "l", "i", "n", "i", "c", "a">>, <<"g", "e", "n", "e", "r", "a", "l">>,
              <<"f", "a", "m", "i", "l", "i", "a">>>>],
     [n |-> <<"4">>,
       kw |-> <<<<"c", "a", "r", "d", "i", "o">>, <<"c", "o", "r", "a", "z", "o", "n">>>>],
     [n |-> <<"5">>,
       kw |-> <<<<"d", "e", "r", "m", "a">>, <<"p", "i", "e", "l">>>>],
     [n |-> <<"6">>,
       kw |-> <<<<"t", "r", "a", "u", "m", "a">>, <<"r", "o", "d", "i", "l", "l", "a">>,
              <<"h", "u", "e", "s", "o">>>>],
     [n |-> <<"7">>,
       kw |-> <<>>] >>

KwDireccion == <<"d", "i", "r", "e", "c", "c", "i", "o", "n">>

KwUbic == <<"u", "b", "i", "c">>

KwHorario == <<"h", "o", "r", "a", "r", "i", "o">>

KwPersona == <<"p", "e", "r", "s", "o", "n", "a">>

KwTurno == <<"t", "u", "r", "n", "o">>

KwEspecialidad == <<"e", "s", "p", "e", "c", "i", "a", "l", "i", "d", "a", "d">>

KwMedico == <<"m", "e", "d", "i", "c", "o">>

KwEstudio == <<"e", "s", "t", "u", "d", "i", "o">>

KwEco == <<"e", "c", "o">>

KwDoppler == <<"d", "o", "p", "p", "l", "e", "r">>

KwHolter == <<"h", "o", "l", "t", "e", "r">>

KwLaboratorio == <<"l", "a", "b", "o", "r", "a", "t", "o", "r", "i", "o">>

KwNoTengo == <<"n", "o", " ", "t", "e", "n", "g", "o">>

KwDespues == <<"d", "e", "s", "p", "u", "e", "s">>

KwLuego == <<"l", "u", "e", "g", "o">>

TxtTen == <<"1", "0">>

TxtSeven == <<"7">>

TxtRadiologia == <<"R", "a", "d", "i", "o", "l", "o", "g", "í", "a">>

TxtUrologia == <<"u", "r", "o", "l", "o", "g", "i", "a">>

TxtOrl == <<"O", "R", "L">>

TxtRx == <<"r", "x">>

TxtEco == <<"e", "c", "o">>

TxtOrtopedia == <<"o", "r", "t", "o", "p", "e", "d", "i", "a">>

\* DEPOSIT_REQUIRED with the variable unset: 'true'
DEPOSIT_REQUIRED_BOOL == TRUE

\* The texts of a sender of the keyword front
CepaTexts == {TxtZero, TxtOne, TxtTwo, TxtTen, TxtSeven, TxtListo, TxtEco, TxtRx, TxtOrl,
              TxtRadiologia, TxtUrologia, TxtOrtopedia}

cepaGetSession(sess, waId) == IF waId \in DOMAIN sess THEN sess[waId] ELSE NoCepaSession

\* setSession(waId, patch): { ...cur, ...patch }
cepaSetSession(C, waId, patch) ==
  [C EXCEPT !.sessions = MapSet(@, waId, Spread(cepaGetSession(C.sessions, waId), patch))]

cepaResetSession(C, waId) == [C EXCEPT !.sessions = MapSet(@, waId, NoCepaSession)]

\* sendText(from, ...): the reply is handed to the provider
cepaSend(C, msg) == [C EXCEPT !.sent = Append(@, msg)]

\* notifyReception(...)
notifyReception(C, msg) == [C EXCEPT !.notified = Append(@, msg)]

\* `${prefix}: ${match.label}` and `${prefix}: ${text}`
itemLabel(prefix, n) == <<prefix, "item", n>>

textLabel(prefix, text) == <<prefix, "text", text>>

\* findByNumberOrKeyword(norm, list): the place of the entry found, 0 for
\* null.  The numbers are compared first, then the keywords, entry by entry.
findByNumberOrKeyword(norm, list) ==
  LET byNumber == {i \in 1..Len(list) : norm = list[i].n}
      byKeyword == {i \in 1..Len(list) :
                      \E k \in 1..Len(list[i].kw) : includes(norm, list[i].kw[k])}
      first(S) == CHOOSE i \in S : \A j \in S : i <= j
  IN IF byNumber # {} THEN first(byNumber)
     ELSE IF byKeyword # {} THEN first(byKeyword)
     ELSE 0

\* handleTextMessage, states choose_study and choose_specialty
cepaChoose(C, from, text, norm, session, list, prefix, other, otherIntent, prompt) ==
  LET match == findByNumberOrKeyword(norm, list)
  IN IF norm = <<"0">> THEN cepaSend(cepaResetSession(C, from), "menuText")
     ELSE IF match = 0 THEN cepaSend(C, prompt)
     ELSE IF list[match].n = other
     THEN cepaSend(cepaSetSession(C, from, [state |-> session.state, intent |-> otherIntent]),
                   "askExactName")
     ELSE IF session.intent = otherIntent /\ Len(norm) >= 3
     THEN cepaSend(cepaSetSession(C, from, [state |-> "waiting_reserved_confirmation",
                                            intent |-> "",
                                            lastLabel |-> textLabel(prefix, text)]),
                   "mrturnoStep")
     ELSE cepaSend(cepaSetSession(C, from, [state |-> "waiting_reserved_confirmation",
                                            lastLabel |-> itemLabel(prefix, list[match].n)]),
                   "mrturnoStep")

\* handleTextMessage, state menu
cepaOnMenu(C, from, norm) ==
  IF norm = <<"1">>
  THEN cepaSend(cepaSetSession(C, from, [state |-> "choose_study"]), "studiesPrompt")
  ELSE IF norm = <<"2">>
  THEN cepaSend(cepaSetSession(C, from, [state |-> "choose_specialty"]), "specialtiesPrompt")
  ELSE IF norm = <<"3">> THEN cepaSend(cepaResetSession(C, from), "estetica")
  ELSE IF norm = <<"4">> THEN cepaSend(cepaResetSession(C, from), "askInsurer")
  ELSE IF norm = <<"5">> THEN cepaSend(cepaResetSession(C, from), "infoContacto")
  ELSE IF norm = <<"6">>
  THEN cepaSend(notifyReception(cepaResetSession(C, from), "handoff"), "tellMeInOneLine")
  ELSE IF \E kw \in {KwTurno, KwEspecialidad, KwMedico} : includes(norm, kw)
  THEN cepaSend(cepaSetSession(C, from, [state |-> "choose_specialty"]), "specialtiesPrompt")
  ELSE IF \E kw \in {KwEstudio, KwEco, KwDoppler, KwHolter, KwLaboratorio} : includes(norm, kw)
  THEN cepaSend(cepaSetSession(C, from, [state |-> "choose_study"]), "studiesPrompt")
  ELSE cepaSend(C, "noEntendiText")

\* handleTextMessage, norm === 'listo'
cepaOnListo(C, from) ==
  LET s == cepaGetSession(C.sessions, from)
  IN IF s.state = "waiting_reserved_confirmation"
     THEN IF DEPOSIT_REQUIRED_BOOL
          THEN cepaSend(cepaSetSession(C, from, [state |-> "waiting_receipt"]),
                        "depositRequestText")
          ELSE cepaSend(notifyReception(cepaResetSession(C, from), "confirmedNoDeposit"),
                        "allSet")
     ELSE cepaSend(C, "whatDidYouBook")

\* handleTextMessage(from, text)
handleTextMessage(C, from, text) ==
  LET norm == normalize(text)
      session == cepaGetSession(C.sessions, from)
  IN IF norm \in {<<"0">>, KwMenu, KwInicio, TxtHola}
     THEN cepaSend(cepaResetSession(C, from), "menuText")
     ELSE IF \E kw \in {KwDireccion, KwUbic, KwHorario} : includes(norm, kw)
     THEN cepaSend(cepaResetSession(C, from), "infoContacto")
     ELSE IF \E kw \in {KwObra, KwPrepaga, KwOsde, KwSwiss} : includes(norm, kw)
     THEN cepaSend(cepaResetSession(C, from), "askInsurer")
     ELSE IF \E kw \in {KwRecep, KwHumano, KwPersona} : includes(norm, kw)
     THEN cepaSend(notifyReception(cepaResetSession(C, from), "handoff"), "toReception")
     ELSE IF norm = KwListo THEN cepaOnListo(C, from)
     ELSE IF session.state = "menu" THEN cepaOnMenu(C, from, norm)
     ELSE IF session.state = "choose_study"
     THEN cepaChoose(C, from, text, norm, session, CEPA_STUDIES, "Estudio", <<"1", "0">>,
                     "study_other", "notRecognizedStudies")
     ELSE IF session.state = "choose_specialty"
     THEN cepaChoose(C, from, text, norm, session, CEPA_SPECIALTIES, "Especialidad", <<"7">>,
                     "spec_other", "notRecognizedSpecialties")
     ELSE IF session.state = "waiting_receipt"
     THEN IF \E kw \in {KwNoTengo, KwDespues, KwLuego} : includes(norm, kw)
          THEN cepaSend(C, "whenYouHaveIt")
          ELSE cepaSend(C, "sendTheReceipt")
     ELSE cepaSend(cepaResetSession(C, from), "menuText")

\* handleMediaMessage(from, msg)
handleMediaMessage(C, from) ==
  IF cepaGetSession(C.sessions, from).state = "waiting_receipt"
  THEN cepaSend(notifyReception(cepaResetSession(C, from), "receiptReceived"), "finalOkText")
  ELSE cepaSend(notifyReception(C, "fileWithoutContext"), "isThisAReceipt")

\* postHandler of the keyword front for a message of a sender: a blank text
\* resets the session and sends the menu
cepaPostHandler(C, from, kind, text) ==
  IF kind = "media" THEN handleMediaMessage(C, from)
  ELSE IF trim(text) = <<>> THEN cepaSend(cepaResetSession(C, from), "menuText")
  ELSE handleTextMessage(C, from, text)

\* The provider delivers a message to the keyword front and its handler runs
\* to its end.
CepaDeliver(from, kind, text) ==
  /\ nextMsg < MaxCepaMsgs
  /\ nextMsg' = nextMsg + 1
  /\ LET C == cepaPostHandler([sessions |-> csessions, sent |-> <<>>, notified |-> <<>>],
                              from, kind, text)
     IN /\ csessions' = C.sessions
        /\ cdone' = [wa |-> from, kind |-> kind, text |-> text,
                     s |-> cepaGetSession(csessions, from), sent |-> C.sent,
                     notified |-> C.notified]
  /\ UNCHANGED <<now, env, firstVars, prodVars, httpVars, call>>

CepaText == \E text \in CepaTexts : CepaDeliver(Sender, "text", text)

CepaMedia == CepaDeliver(Sender, "media", <<>>)

NextCepa ==
  \/ CepaText
  \/ CepaMedia

SpecCepa == Init /\ [][NextCepa]_vars

-----------------------------------------------------------------------------
(* The demo server: a booking up to the held appointment, and the          *)
(* notifications of the payment provider on POST /api/mp/webhook.          *)

TxtA == <<"A">>

\* The texts of a booking, and '4' to leave a booking that awaits payment
PayTexts == {TxtOne, TxtFour, TxtA}

\* body.external_reference || body.appointmentId of a notification: absent,
\* the ids of the appointments, an id no appointment has
NotifiedIds == {0, 1, 2, 3}

\* body.status of a notification: absent, approved, or another status
NotifiedStatuses == {"", "approved", "pending"}

\* POST /api/mp/webhook: a notification with status approved and an
\* appointment id marks the appointment paid; the answer is always 200.
PostMpWebhook(appointmentId, status) ==
  /\ LET D == IF appointmentId # 0 /\ status = "approved"
              THEN markAppointmentPaid(DemoMachine, appointmentId, "mp-demo")
              ELSE DemoMachine
     IN /\ appointments' = D.appts
        /\ hdone' = [server |-> "demo", method |-> "POST", mode |-> "", token |-> "",
                     sig |-> <<>>, json |-> TRUE, status |-> 200, body |-> "ok_true",
                     events |-> <<"respond">>, route |-> "/api/mp/webhook",
                     appointmentId |-> appointmentId, payStatus |-> status]
  /\ done' = NoDone
  /\ lastDelivery' = NoDelivery
  /\ UNCHANGED <<now, env, nextMsg, sessions, caseStore, sheetCases, seenMsg, tasks, idCount,
                 sheetFailures, overlaps, mpPrefs, mpPaid, returned, redeliverable, prodVars,
                 henv, conversations, handoffs, call, cepaVars>>

PayText == \E raw \in PayTexts : PostDemoTextUpTo(MaxPayMsgs, <<>>, Sender, raw)

PayNotification ==
  \E appointmentId \in NotifiedIds, status \in NotifiedStatuses :
    PostMpWebhook(appointmentId, status)

NextPay ==
  \/ PayText
  \/ PayNotification

InitPay == Init /\ env = [gsheet |-> FALSE, mp |-> FALSE]

SpecPay == InitPay /\ [][NextPay]_vars

-----------------------------------------------------------------------------
(* What a handler execution is to send and to leave as session state,     *)
(* read off the branch its session snapshot and input select.             *)

\* The whole branch, with what follows createMpPreference
programOf(d) ==
  LET first == IF d.kind = "text" THEN handleUserText(d.s, d.raw) ELSE handleMedia(d.s)
      last == first[Len(first)]
  IN IF last.op = "mp"
     THEN SubSeq(first, 1, Len(first) - 1)
            \o afterMp(d.s, d.raw, last.patientType, d.mp = "ok")
     ELSE first

isSend(o) == o.op = "send"

isSessionWrite(o) == o.op \in {"setSession", "resetSession"}

\* The texts of the sendText calls of a branch, in order
msgsOf(prog) ==
  LET sends == SelectSeq(prog, isSend)
  IN [i \in 1..Len(sends) |-> sends[i].msg]

\* The state of the last setSession/resetSession of a branch, "" if none
lastStateOf(prog) ==
  LET writes == SelectSeq(prog, isSessionWrite)
  IN IF writes = <<>> THEN ""
     ELSE IF writes[Len(writes)].op = "resetSession" THEN "menu"
     ELSE writes[Len(writes)].state

\* The ledger status of a sender's case, as the case store holds it
statusOf(w) == IF w \in DOMAIN caseStore THEN Get(caseStore[w].data, "status") ELSE ""

-----------------------------------------------------------------------------
(* Claims.                                                                *)

\* C1: in awaiting_payment a text message sets the case's ledger status to
\* 'confirmed' only if the payment provider holds an approved payment of
\* the deposit whose external reference is the case id; a message with an
\* operation id the provider has no such payment for leaves the status and
\* the session at awaiting_payment.
C1_ConfirmedOnlyIfApproved ==
  (done.kind = "text" /\ done.s.state = "awaiting_payment" /\ ~done.aborted
     /\ done.caseId \notin mpPaid) =>
    /\ statusOf(done.wa) # "confirmed"
    /\ extractOpId(trim(done.raw)) # <<>> =>
         /\ statusOf(done.wa) = "awaiting_payment"
         /\ getSession(sessions, done.wa, now).state = "awaiting_payment"

\* C2: a media message received in awaiting_payment never marks the case
\* 'confirmed' unless the provider holds an approved matching payment;
\* otherwise the conversation goes to handoff.
C2_MediaNeverConfirms ==
  (done.kind = "media" /\ done.s.state = "awaiting_payment" /\ ~done.aborted
     /\ done.caseId \notin mpPaid) =>
    /\ statusOf(done.wa) # "confirmed"
    /\ getSession(sessions, done.wa, now).state = "handoff"

\* C3: however the handlers of a sender's messages interleave at their
\* awaits, every case id handed to a handler of that sender is the same id.
C3_OneCaseIdPerSender ==
  \A w \in Senders : Cardinality(returned[w]) <= 1

\* C4: a delivery that carries the message id of a delivery processed at
\* most SEEN_TTL_MS earlier changes no session, starts no handler (so sends
\* nothing) and writes no case, row or event, whether the handler of the
\* first delivery has ended, is suspended, or threw.
C4_RetryHasNoEffect ==
  [][lastDelivery'.retry =>
       UNCHANGED <<sessions, caseStore, sheetCases, tasks, idCount, returned, mpPrefs,
                   seenMsg>>]_vars

\* C4, witness: a retry arrived within the window while the handler of the
\* first delivery was still suspended at an await.
C4_Witness ==
  /\ lastDelivery.retry
  /\ \E i \in 1..Len(tasks) : tasks[i].wa = redeliverable[lastDelivery.msgId].wa

\* C5: two handler executions of the same sender never overlap, and no
\* handler is suspended holding a case entry that another handler has
\* changed in the meantime.
C5_HandlersDoNotOverlap ==
  \A i, j \in 1..Len(tasks) :
    /\ (i # j) => tasks[i].wa # tasks[j].wa
    /\ (tasks[i].cur.has /\ Head(tasks[i].todo).op = "upsert") =>
         /\ tasks[i].wa \in DOMAIN caseStore
         /\ caseStore[tasks[i].wa].data = tasks[i].cur.data

\* C6: in a session state other than 'menu' (here: the states of a flow in
\* progress; 'handoff', which any text ends, is left aside), a message that
\* is only a greeting, thanks or farewell leaves the sender's session state
\* and context as they were: it neither resets the session nor advances
\* the flow.
C6_CourtesyLeavesSession ==
  (/\ pdone.kind = "text"
   /\ pdone.s.state \notin {"menu", "handoff"}
   /\ normalize(pdone.raw) \in NormalizedGreetings \cup NormalizedThanksBye) =>
    /\ prodGetSession(psessions, pdone.wa, now).state = pdone.s.state
    /\ prodGetSession(psessions, pdone.wa, now).context = pdone.s.context

\* C7: a stored session older than SESSION_TTL_MS when a message arrives is
\* treated like an absent one, swept or not: the message is handled from
\* 'menu' with an empty context.
C7_ExpiredSessionIsAbsent ==
  \A i \in 1..Len(tasks) :
    sessionExpired(tasks[i].s.updatedAt, tasks[i].at) =>
      (tasks[i].s.state = "menu" /\ tasks[i].s.ctx = EmptyObj)

\* C8: once a sender's session has left awaiting_payment, no reminder timer
\* scheduled during that stay is still pending: every pending timer is the
\* one recorded in the context of a session that is in awaiting_payment,
\* and a reminder is sent only by the timer of the current stay.
C8_NoStaleReminderTimer ==
  /\ \A x \in timers :
       /\ prodGetSession(psessions, x.wa, now).state = "awaiting_payment"
       /\ prodGetSession(psessions, x.wa, now).context.reminderTimer = x.id
  /\ (pdone.kind = "reminder" /\ pdone.sent # <<>>) =>
       pdone.s.context.reminderTimer = pdone.timer

\* C9: whenever the creation of the payment request fails (missing token,
\* non-OK response or network error), the session is moved to handoff, the
\* user is told to reach the front desk, and the session is not left in
\* awaiting_payment.
C9_MpFailureGoesToHandoff ==
  (done.kind = "text" /\ done.mp \notin {"none", "ok"}) =>
    /\ done.setTo = "handoff"
    /\ getSession(sessions, done.wa, now).state = "handoff"
    /\ \E i \in 1..Len(done.sent) : done.sent[i] \in {"mpFailedParticular", "mpFailedOs"}

\* C10: when a spreadsheet call fails or the spreadsheet is not configured,
\* the handling of the message is not aborted, and its session transition
\* and replies are those of the branch, as when every call succeeds.
C10_LedgerFailureChangesNothing ==
  (done.kind # "none" /\ done.mp # "throw") =>
    /\ ~done.aborted
    /\ done.sent = msgsOf(programOf(done))
    /\ done.setTo = lastStateOf(programOf(done))

\* C10, witness: a handler ended after one of its spreadsheet calls failed
\* on a configured spreadsheet, having written the session and replied.
C10_Witness ==
  /\ env.gsheet
  /\ sheetFailures > 0
  /\ done.sheetFailed
  /\ done.setTo # ""
  /\ done.sent # <<>>

\* C11: from every session state, a text whose normalized form is '0',
\* 'menu' or 'inicio' resets the sender's session to 'menu' with an empty
\* context and is answered with the menu.
C11_ResetCommandFromEveryState ==
  (/\ done.kind = "text"
   /\ ~done.aborted
   /\ normalize(firstLine(trim(done.raw))) \in {<<"0">>, KwMenu, KwInicio}) =>
    /\ getSession(sessions, done.wa, now).state = "menu"
    /\ getSession(sessions, done.wa, now).ctx = EmptyObj
    /\ done.sent = <<"menuText">>

\* C12: in the data-entry states ask_os_name and ask_os_token a text that
\* contains an insurance keyword is taken as the answer and advances the
\* flow (the insurer's name is stored as typed); the insurance-information
\* shortcut never answers a message received in a data-entry state.
C12_KeywordIsLiteralInDataEntry ==
  /\ (/\ pdone.kind = "text"
      /\ pdone.s.state \in {"ask_os_name", "ask_os_token"}
      /\ \E kw \in {KwObra, KwPrepaga, KwOsde, KwSwiss} : includes(normalize(pdone.raw), kw)) =>
       /\ prodGetSession(psessions, pdone.wa, now).state =
            (IF pdone.s.state = "ask_os_name" THEN "ask_os_token" ELSE "awaiting_payment")
       /\ pdone.s.state = "ask_os_name" =>
            prodGetSession(psessions, pdone.wa, now).context.osName = trim(pdone.raw)
  /\ (\E i \in 1..Len(pdone.sent) : pdone.sent[i] = "insuranceInfo") =>
       pdone.s.state \notin {"ask_os_name", "ask_os_token"}

\* C13: from ask_patient_type, '2' asks for the insurer's name, 'OSDE' is
\* stored as that name and asks for the token, and 'token 123 dni 30111222'
\* with a created payment request ends with the payment link as the reply,
\* the session in awaiting_payment, and a case holding patient_type
\* 'obra_social', os_name 'OSDE' and the token text as os_token; in both
\* revisions of the handler (for the prod-pack revision, whose appended row
\* is modelled by its status, the row says awaiting_payment).
C13_InsuredScenario ==
  /\ (done.kind = "text" /\ ~done.aborted /\ done.s.state = "ask_patient_type"
        /\ done.raw = TxtTwo) =>
       getSession(sessions, done.wa, now).state = "ask_os_name"
  /\ (done.kind = "text" /\ ~done.aborted /\ done.s.state = "ask_os_name"
        /\ done.raw = TxtOsde) =>
       /\ getSession(sessions, done.wa, now).state = "ask_os_token"
       /\ Get(getSession(sessions, done.wa, now).ctx, "osName") = TxtOsde
  /\ (done.kind = "text" /\ ~done.aborted /\ done.s.state = "ask_os_token"
        /\ Get(done.s.ctx, "osName") = TxtOsde /\ done.raw = TxtToken /\ done.mp = "ok") =>
       /\ done.sent = <<"paymentLinkText">>
       /\ getSession(sessions, done.wa, now).state = "awaiting_payment"
       /\ Get(caseStore[done.wa].data, "patient_type") = "obra_social"
       /\ Get(caseStore[done.wa].data, "os_name") = TxtOsde
       /\ Get(caseStore[done.wa].data, "os_token") = TxtToken
  /\ (pdone.kind = "text" /\ pdone.s.state = "ask_patient_type" /\ pdone.raw = TxtTwo) =>
       prodGetSession(psessions, pdone.wa, now).state = "ask_os_name"
  /\ (pdone.kind = "text" /\ pdone.s.state = "ask_os_name" /\ pdone.raw = TxtOsde) =>
       /\ prodGetSession(psessions, pdone.wa, now).state = "ask_os_token"
       /\ prodGetSession(psessions, pdone.wa, now).context.osName = TxtOsde
  /\ (pdone.kind = "text" /\ pdone.s.state = "ask_os_token"
        /\ pdone.s.context.osName = TxtOsde /\ pdone.raw = TxtToken
        /\ prodGetSession(psessions, pdone.wa, now).context.mp = "ok") =>
       /\ pdone.sent = <<"paymentLinkText">>
       /\ prodGetSession(psessions, pdone.wa, now).state = "awaiting_payment"
       /\ prodGetSession(psessions, pdone.wa, now).context.patientType = "obra_social"
       /\ prodGetSession(psessions, pdone.wa, now).context.osToken = TxtToken
       /\ lastRow[pdone.wa].status = "awaiting_payment"

\* C14: from 'menu', the input '1' or '2' in one step stores the chosen
\* flow and label in the session context, sends the external booking link
\* and moves the session to awaiting_mrturno_done; in both revisions of the
\* handler.
C14_MenuChoiceSendsBookingLink ==
  /\ (done.kind = "text" /\ ~done.aborted /\ done.s.state = "menu"
        /\ normalize(firstLine(trim(done.raw))) \in {TxtOne, TxtTwo}) =>
       /\ done.sent = <<"mrTurnoText">>
       /\ getSession(sessions, done.wa, now).state = "awaiting_mrturno_done"
       /\ Get(getSession(sessions, done.wa, now).ctx, "flow") =
            (IF normalize(firstLine(trim(done.raw))) = TxtOne THEN "turno" ELSE "estudio")
       /\ Get(getSession(sessions, done.wa, now).ctx, "label") =
            (IF normalize(firstLine(trim(done.raw))) = TxtOne THEN LabelTurno ELSE LabelEstudios)
  /\ (pdone.kind = "text" /\ pdone.s.state = "menu"
        /\ normalize(pdone.raw) \in {TxtOne, TxtTwo}) =>
       /\ pdone.sent = <<"mrturnoText">>
       /\ prodGetSession(psessions, pdone.wa, now).state = "awaiting_mrturno_done"
       /\ prodGetSession(psessions, pdone.wa, now).context.type =
            (IF normalize(pdone.raw) = TxtOne THEN "turno" ELSE "estudio")
       /\ prodGetSession(psessions, pdone.wa, now).context.label # <<>>

\* C15: in awaiting_mrturno_done the session moves to ask_patient_type, with
\* the patient-type prompt sent and flow and label kept, exactly when the
\* normalized input is 'listo', 'ok', 'dale' or 'ya'; any other input leaves
\* the session state and context as they were and is answered with the
\* reminder to confirm the booking; in both revisions of the handler.
C15_BookingPendingWaitsForListo ==
  /\ (done.kind = "text" /\ ~done.aborted /\ done.s.state = "awaiting_mrturno_done") =>
       IF normalize(firstLine(trim(done.raw))) \in {KwListo, KwOk, KwDale, KwYa}
       THEN /\ getSession(sessions, done.wa, now).state = "ask_patient_type"
            /\ Get(getSession(sessions, done.wa, now).ctx, "flow") = Get(done.s.ctx, "flow")
            /\ Get(getSession(sessions, done.wa, now).ctx, "label") = Get(done.s.ctx, "label")
            /\ done.sent = <<"patientTypePrompt">>
       ELSE /\ getSession(sessions, done.wa, now).state = "awaiting_mrturno_done"
            /\ getSession(sessions, done.wa, now).ctx = done.s.ctx
            /\ done.sent = <<"writeListo">>
  /\ (pdone.kind = "text" /\ pdone.s.state = "awaiting_mrturno_done") =>
       IF normalize(pdone.raw) \in {KwListo, KwOk, KwDale, KwYa}
       THEN /\ prodGetSession(psessions, pdone.wa, now).state = "ask_patient_type"
            /\ prodGetSession(psessions, pdone.wa, now).context = pdone.s.context
            /\ pdone.sent = <<"patientTypePrompt">>
       ELSE /\ prodGetSession(psessions, pdone.wa, now).state = "awaiting_mrturno_done"
            /\ prodGetSession(psessions, pdone.wa, now).context = pdone.s.context

\* The named session states of the state-first revision
SessionStates ==
  {"menu", "awaiting_mrturno_done", "ask_patient_type", "ask_os_name", "ask_os_token",
   "awaiting_payment", "handoff"}

\* C19: the state of every stored session, and of every session snapshot a
\* handler works from, is one of the named states; and a handler started
\* for a sender that has no stored session works from state 'menu' with an
\* empty context.
C19_SessionStateIsNamed ==
  /\ [](/\ \A w \in DOMAIN sessions : sessions[w].state \in SessionStates
        /\ \A i \in 1..Len(tasks) : tasks[i].s.state \in SessionStates
        /\ done.kind # "none" => done.s.state \in SessionStates)
  /\ [][\A w \in Senders :
          (w \notin DOMAIN sessions /\ lastDelivery'.msgId # 0 /\ seenMsg' # seenMsg) =>
            /\ (Len(tasks') > Len(tasks) /\ tasks'[Len(tasks')].wa = w) =>
                 /\ tasks'[Len(tasks')].s.state = "menu"
                 /\ tasks'[Len(tasks')].s.ctx = EmptyObj
            /\ (done'.kind # "none" /\ done'.wa = w) =>
                 (done'.s.state = "menu" /\ done'.s.ctx = EmptyObj)]_vars

\* C19, witness: a handler that started without a stored session has ended
\* and left a stored session in a state other than 'menu'.
C19_Witness ==
  /\ done.kind = "text"
  /\ done.s.state = "menu"
  /\ done.at = 0
  /\ done.wa \in DOMAIN sessions
  /\ sessions[done.wa].state = "awaiting_mrturno_done"

\* The values of the ledger's status column
LedgerStatuses ==
  {"lead", "awaiting_mrturno", "awaiting_patient_type", "awaiting_os_name",
   "awaiting_os_token", "awaiting_payment", "mp_failed", "confirmed", "handoff", "fallback"}

\* C20: the status of every case row written to the ledger is one of lead,
\* awaiting_mrturno, awaiting_patient_type, awaiting_os_name,
\* awaiting_os_token, awaiting_payment, mp_failed, confirmed, handoff,
\* fallback.
C20_LedgerStatusIsEnumerated ==
  \A i \in 1..Len(sheetCases) : sheetCases[i].status \in LedgerStatuses

\* C16: for every accepted POST delivery, the HTTP 200 response is sent
\* before any session change, ledger write, payment call or outbound message
\* performed for that delivery: the response is the first event of the
\* exchange.
C16_RespondsBeforeProcessing ==
  (hdone.method = "POST" /\ hdone.status = 200) => Head(hdone.events) = "respond"

\* C17: a POST whose body is not valid JSON, or whose signature is missing
\* or invalid while an app secret is configured, is answered with a 4xx
\* status and changes no session, writes no ledger row, adds no dedup entry
\* and sends no message: the response is the only event of the exchange.
C17_MalformedInputIsRefused ==
  (/\ hdone.method = "POST"
   /\ \/ ~hdone.json
      \/ /\ hdone.server = "first"
         /\ henv.appSecret
         /\ hdone.sig # <<"sha256=", "hmac">>) =>
    /\ hdone.status \in 400..499
    /\ hdone.events = <<"respond">>

\* C18: the GET verification handshake answers 200 with the challenge only
\* when hub.mode is 'subscribe' and the supplied token equals the
\* operator-configured WA_VERIFY_TOKEN; in every other case, including when
\* no verify token has been configured, it answers 403 and does not echo the
\* challenge.
C18_VerifyNeedsConfiguredToken ==
  hdone.method = "GET" =>
    IF hdone.mode = "subscribe" /\ henv.verifyToken # "" /\ hdone.token = henv.verifyToken
    THEN hdone.status = 200 /\ hdone.body = Challenge
    ELSE hdone.status = 403 /\ hdone.body # Challenge

\* C21: in every case row written to the ledger, os_name and os_token are
\* non-empty only if patient_type = 'obra_social', over every sequence of
\* flows of a sender: also in a later flow as 'particular' after an insured
\* one.
C21_InsuranceFieldsOnlyForInsured ==
  \A i \in 1..Len(sheetCases) :
    (sheetCases[i].os_name # <<>> \/ sheetCases[i].os_token # <<>>) =>
      sheetCases[i].patient_type = "obra_social"

\* C22: normalize is idempotent: for every input string s,
\* normalize(normalize(s)) = normalize(s).
C22_NormalizeIsIdempotent ==
  call.fn = "normalize" => normalize(call.res) = call.res

\* The step ran a handler of sender w: it ended in the step, or it is
\* suspended after the step at a place it was not suspended at before.
handledFor(w) ==
  \/ done'.wa = w
  \/ \E i \in 1..Len(tasks') :
       tasks'[i].wa = w /\ \A j \in 1..Len(tasks) : tasks[j] # tasks'[i]

\* The rows of the cases sheet that belong to sender w
rowsOf(sheet, w) == SelectSeq(sheet, LAMBDA r : r.wa_from = w)

\* The step left the session, the case-store entry and the rows of w alone
untouchedFor(w) ==
  /\ (w \in DOMAIN sessions') = (w \in DOMAIN sessions)
  /\ w \in DOMAIN sessions => sessions'[w] = sessions[w]
  /\ (w \in DOMAIN caseStore') = (w \in DOMAIN caseStore)
  /\ w \in DOMAIN caseStore => caseStore'[w] = caseStore[w]
  /\ rowsOf(sheetCases', w) = rowsOf(sheetCases, w)

\* C23: handling an inbound message of sender A leaves the session, the
\* case-store entry (case id, row number, case data) and the ledger row of
\* every other sender B unchanged.
C23_OtherSendersUntouched ==
  [][\A A \in Senders : \A B \in Senders \ {A} : handledFor(A) => untouchedFor(B)]_vars

\* C23 witness: a handler of 54911 has ended while 54900 has a session, a
\* case-store entry with its row, and a handler suspended at an await.
C23_Witness ==
  /\ done.wa = "54911"
  /\ done.sent # <<>>
  /\ "54900" \in DOMAIN sessions
  /\ sessions["54900"].state = "awaiting_mrturno_done"
  /\ "54900" \in DOMAIN caseStore
  /\ caseStore["54900"].row # 0
  /\ rowsOf(sheetCases, "54900") # <<>>
  /\ rowsOf(sheetCases, "54911") # <<>>
  /\ tasks # <<>>
  /\ tasks[1].wa = "54900"

\* C24: when the sender's session is in state 'handoff', any inbound text is
\* answered with the operator hand-off acknowledgment, the hand-off is
\* recorded in the ledger with case status 'handoff', and the session is
\* reset to 'menu' (state-first revision, then prod-pack revision).
C24_HandoffIsAcknowledged ==
  /\ (done.kind = "text" /\ ~done.aborted /\ done.s.state = "handoff") =>
       /\ done.sent = <<"handoffAck">>
       /\ statusOf(done.wa) = "handoff"
       /\ getSession(sessions, done.wa, now).state = "menu"
  /\ (pdone.kind = "text" /\ pdone.s.state = "handoff") =>
       /\ pdone.sent = <<"handoffAck">>
       /\ lastRow[pdone.wa].status = "handoff"
       /\ prodGetSession(psessions, pdone.wa, now).state = "menu"

\* The keys of the context the payment step works from
PaymentContextKeys == {"type", "label", "patientType", "osName", "osToken", "mp"}

\* C25: in state awaiting_payment a text with no extractable operation id
\* and no paid-intent keyword (and that is no reset command) leaves the
\* session in awaiting_payment with its context (flow, label, patient type,
\* insurer data, payment link) unchanged, leaves the case unconfirmed, and
\* is answered with the send-payment-proof prompt (state-first revision,
\* then prod-pack revision).
C25_OtherTextKeepsAwaitingPayment ==
  /\ (/\ done.kind = "text" /\ ~done.aborted
      /\ done.s.state = "awaiting_payment"
      /\ extractOpId(trim(done.raw)) = <<>>
      /\ normalize(firstLine(trim(done.raw))) \notin {<<"0">>, KwMenu, KwInicio}) =>
       /\ done.wa \in DOMAIN sessions
       /\ sessions[done.wa].state = "awaiting_payment"
       /\ sessions[done.wa].ctx = done.s.ctx
       /\ statusOf(done.wa) # "confirmed"
       /\ done.sent = <<"sendProof">>
  /\ (/\ pdone.kind = "text"
      /\ pdone.s.state = "awaiting_payment"
      /\ extractOperationId(pdone.raw) = <<>>
      /\ ~maybeLooksLikeReceiptText(normalize(pdone.raw))
      /\ normalize(pdone.raw) \notin {<<"0">>, KwMenu, KwInicio}) =>
       /\ pdone.wa \in DOMAIN psessions
       /\ psessions[pdone.wa].state = "awaiting_payment"
       /\ \A k \in PaymentContextKeys :
            psessions[pdone.wa].context[k] = pdone.s.context[k]
       /\ lastRow[pdone.wa].status # "confirmed"
       /\ pdone.sent = <<"sendProof">>

\* The handler that ended in the last step marked the case confirmed
\* (state-first revision; prod-pack revision)
firstConfirmed ==
  /\ done.kind # "none" /\ ~done.aborted
  /\ done.s.state = "awaiting_payment"
  /\ statusOf(done.wa) = "confirmed"

prodConfirmed ==
  /\ pdone.kind \in {"text", "media"}
  /\ pdone.s.state = "awaiting_payment"
  /\ pdone.wa \in DOMAIN lastRow
  /\ lastRow[pdone.wa].status = "confirmed"

\* C26: whenever a case is marked confirmed, the same handler invocation
\* resets the sender's session to 'menu' with empty context, clears any
\* pending reminder timer, and sends the receipt and the confirmation
\* replies; the sender's next message is handled from 'menu'.
C26_ConfirmationResetsSession ==
  /\ [](firstConfirmed =>
          /\ done.setTo = "menu"
          /\ done.sent = <<"receiptAckText", "finalConfirmedText">>
          /\ done.wa \in DOMAIN sessions
          /\ sessions[done.wa].state = "menu"
          /\ sessions[done.wa].ctx = EmptyObj)
  /\ [](prodConfirmed =>
          /\ pdone.sent = <<"receiptAckText", "finalConfirmedText">>
          /\ pdone.wa \in DOMAIN psessions
          /\ psessions[pdone.wa].state = "menu"
          /\ psessions[pdone.wa].context = EmptyContext
          /\ \A x \in timers : x.wa # pdone.wa)
  /\ [][(firstConfirmed /\ seenMsg' # seenMsg) =>
          (IF tasks' # <<>> THEN tasks'[Len(tasks')].s.state ELSE done'.s.state) = "menu"]_vars
  /\ [][(prodConfirmed /\ nextMsg' # nextMsg) => pdone'.s.state = "menu"]_vars

\* C27: setSession(sender, state, contextPatch) replaces the session state,
\* refreshes updatedAt, and merges contextPatch into the existing context:
\* every context key not named in the patch keeps the value it had before
\* the call.
C27_SetSessionMergesContext ==
  call.fn \in {"setSession", "prodSetSession"} =>
    /\ call.res.state = call.state
    /\ call.res.updatedAt = call.t
    /\ \A k \in DOMAIN call.patch :
         k \in DOMAIN call.res.ctx /\ call.res.ctx[k] = call.patch[k]
    /\ \A k \in DOMAIN call.before \ DOMAIN call.patch :
         k \in DOMAIN call.res.ctx /\ call.res.ctx[k] = call.before[k]

\* C28: for each sender the cases sheet holds one row: once the first case
\* row of a sender has been appended, every later ledger upsert for that
\* sender rewrites that same row, at the row number recorded for the sender,
\* and appends no further case row.  First for the state-first revision,
\* then for the prod-pack.
C28_OneCaseRowPerSender ==
  /\ \A w \in Senders :
       /\ Len(rowsOf(sheetCases, w)) <= 1
       /\ (w \in DOMAIN caseStore /\ caseStore[w].row # 0) =>
            sheetCases[caseStore[w].row].wa_from = w
  /\ \A w \in DOMAIN lastRow : lastRow[w].n <= 1

\* The ledger statuses that mirror a session state of the flow; the menu
\* state has none of its own.
mirrorOf(state) ==
  CASE state = "awaiting_mrturno_done" -> {"awaiting_mrturno"}
    [] state = "ask_patient_type" -> {"awaiting_patient_type"}
    [] state = "ask_os_name" -> {"awaiting_os_name"}
    [] state = "ask_os_token" -> {"awaiting_os_token"}
    [] state = "awaiting_payment" -> {"awaiting_payment"}
    [] state = "handoff" -> {"handoff", "mp_failed"}
    [] OTHER -> {}

\* The handling of a message of the state-first revision ran to its end,
\* with every spreadsheet call answered.
fullyHandled ==
  /\ env.gsheet
  /\ sheetFailures = 0
  /\ tasks = <<>>
  /\ done.kind \in {"text", "media"}
  /\ ~done.aborted

\* The statuses the upsertCase calls of a handler execution wrote
writtenStatuses(d) ==
  {programOf(d)[i].patch.status :
     i \in {j \in 1..Len(programOf(d)) : programOf(d)[j].op = "upsert"}}

\* The status column of the row the case store records for sender w
ledgerStatus(w) == sheetCases[caseStore[w].row].status

\* C29: the case ledger mirrors the session.  After every fully handled
\* inbound message (text or media) the ledger status of the sender's case
\* corresponds to the sender's session state: awaiting_mrturno_done with
\* awaiting_mrturno, ask_patient_type with awaiting_patient_type,
\* ask_os_name with awaiting_os_name, ask_os_token with awaiting_os_token,
\* awaiting_payment with awaiting_payment, handoff with handoff or
\* mp_failed; and when the session stayed in the state the handler found,
\* no status the handler wrote is a value that mirrors another session
\* state.
C29_LedgerMirrorsSession ==
  fullyHandled =>
    LET w == done.wa
        state == getSession(sessions, w, now).state
    IN /\ mirrorOf(state) # {} => ledgerStatus(w) \in mirrorOf(state)
       /\ state = done.s.state =>
            \A other \in SessionStates \ {state} :
              writtenStatuses(done) \cap mirrorOf(other) = {}

\* The places of text where a standalone label id, op or operacion is
\* followed by at least 6 digits, and those where a standalone run of at
\* least 10 digits starts
labelledAt(text) ==
  {i \in 1..Len(text) :
     \E l \in 1..Len(OpLabels) : labelledDigitsAt(text, OpLabels[l], i) # <<>>}

standaloneLongAt(text) == {i \in 1..Len(text) : longDigitsAt(text, i) # <<>>}

\* C30: operation-id extraction returns the digits that follow a standalone
\* label 'id', 'op' or 'operacion' when there are at least 6 of them;
\* otherwise the first standalone run of at least 10 digits; otherwise
\* nothing; and a message for which that gives nothing is never taken as a
\* payment reference.
C30_OperationIdExtraction ==
  /\ call.fn \in {"extractOpId", "extractOperationId"} =>
       /\ labelledAt(call.arg) # {} =>
            \E i \in labelledAt(call.arg), l \in 1..Len(OpLabels) :
              /\ \A j \in labelledAt(call.arg) : i <= j
              /\ call.res # <<>>
              /\ call.res = labelledDigitsAt(call.arg, OpLabels[l], i)
       /\ (labelledAt(call.arg) = {} /\ standaloneLongAt(call.arg) # {}) =>
            \E i \in standaloneLongAt(call.arg) :
              /\ \A j \in standaloneLongAt(call.arg) : i <= j
              /\ call.res = longDigitsAt(call.arg, i)
       /\ (labelledAt(call.arg) = {} /\ standaloneLongAt(call.arg) = {}) =>
            call.res = <<>>
  /\ (call.fn = "maybeLooksLikeReceiptText" /\ call.res) =>
       labelledAt(call.arg) \cup standaloneLongAt(call.arg) # {}

\* Six digits or more and nothing else
onlyDigitsSixOrMore(t) ==
  /\ Len(t) >= 6
  /\ \A i \in 1..Len(t) : t[i] \in {"0", "1", "2", "3", "4", "5", "6", "7", "8", "9"}

\* A text message was handled to its end from a session in ask_os_name, and
\* its text is not blank.
answeredOsName ==
  /\ done.kind = "text" /\ ~done.aborted
  /\ done.s.state = "ask_os_name"
  /\ trim(done.raw) # <<>>

\* C31: in ask_os_name an input that is a long digit string (6 or more
\* digits and nothing else) is rejected: the session stays in ask_os_name
\* with its context unchanged, no insurer name is written to the case, and
\* the user is asked again for the name; any other non-empty text is stored,
\* trimmed, as the insurer name (in the session and in the case) and moves
\* the session to ask_os_token.
C31_DigitsAreNoInsurerName ==
  answeredOsName =>
    LET w == done.wa
        name == trim(done.raw)
    IN IF onlyDigitsSixOrMore(name)
       THEN /\ sessions[w] = done.s
            /\ Get(caseStore[w].data, "os_name") # name
            /\ statusOf(w) = "awaiting_os_name"
            /\ done.sent = <<"askOsNameAgain">>
       ELSE /\ sessions[w].state = "ask_os_token"
            /\ sessions[w].ctx = Spread(done.s.ctx, [osName |-> name])
            /\ Get(caseStore[w].data, "os_name") = name
            /\ statusOf(w) = "awaiting_os_token"
            /\ done.sent = <<"askOsTokenText">>

\* A digit string was rejected in ask_os_name: the handler asked again and
\* the session is where it was.
C31_Witness ==
  /\ answeredOsName
  /\ done.raw = TxtSixDigits
  /\ done.sent = <<"askOsNameAgain">>
  /\ sessions[done.wa].state = "ask_os_name"

\* The handler or callback of the last step of the prod-pack sent the
\* payment reminder.
reminderWasSent == \E i \in 1..Len(pdone.sent) : pdone.sent[i] = "reminder"

\* C32: during one continuous stay of a sender's session in
\* awaiting_payment at most one reminder is sent, however many further
\* messages the sender sends while waiting, and a reminder is sent only if
\* the session is in awaiting_payment at the moment the timer fires.
C32_OneReminderPerStay ==
  /\ \A w \in Senders : reminders[w] <= 1
  /\ reminderWasSent =>
       /\ pdone.kind = "reminder"
       /\ pdone.s.state = "awaiting_payment"

\* The reminder timer that the stored session of w names is pending, and the
\* session has stayed in awaiting_payment, unreminded.
awaitsReminder(w) ==
  /\ w \in DOMAIN psessions
  /\ psessions[w].state = "awaiting_payment"
  /\ ~psessions[w].context.reminderSent
  /\ \E x \in timers : x.id = psessions[w].context.reminderTimer /\ x.wa = w

\* C33: with the default configuration (payment window 60 minutes, session
\* TTL 60 minutes, sweep every 60 seconds), when a sender's session enters
\* awaiting_payment and is not touched again, the reminder timer fires and
\* the reminder is sent before the TTL sweep evicts the session and clears
\* the timer.  In steps: no step deletes a session whose reminder timer is
\* pending or drops that timer unfired, and the callback of that timer
\* sends the reminder.
C33_ReminderBeforeEviction ==
  [][\A w \in Senders :
       awaitsReminder(w) =>
         LET x == CHOOSE y \in timers : y.id = psessions[w].context.reminderTimer
         IN /\ w \in DOMAIN psessions'
            /\ x \in timers' \/ (pdone'.kind = "reminder" /\ pdone'.timer = x.id)
               \/ psessions'[w].state # "awaiting_payment"
            /\ (pdone'.kind = "reminder" /\ pdone'.timer = x.id) =>
                 /\ InSeq("reminder", pdone'.sent)
                 /\ psessions'[w].context.reminderSent]_vars

\* The timer of a stay that nothing touched fired a payment window after it
\* was set, and its callback sent the reminder.
C33_Witness ==
  /\ pdone.kind = "reminder"
  /\ reminderWasSent
  /\ pdone.s.context.reminderTimer = pdone.timer
  /\ (now - pdone.s.updatedAt) * TickMs = PAYMENT_WINDOW_MS
  /\ PAYMENT_WINDOW_MS = SESSION_TTL_MS

\* The callback of a fired reminder timer of w is suspended at an await,
\* and the case of w has been confirmed since it fired: the last row of w
\* is the 'confirmed' one and the stay it was fired in is over.
confirmedWhileCallbackWaits(w) ==
  /\ \E i \in 1..Len(pwait) : pwait[i].kind = "reminder" /\ pwait[i].wa = w
  /\ w \in DOMAIN lastRow
  /\ lastRow[w].status = "confirmed"
  /\ prodGetSession(psessions, w, now).state = "menu"

\* C34: no reminder is emitted after a confirmation: when a payment proof
\* of a sender is handled while that sender's fired reminder callback is
\* suspended at an await, neither the reminder message nor the callback's
\* 'awaiting_payment' case row is produced after the 'confirmed' case row
\* of that stay.
C34_NoReminderAfterConfirmation ==
  [][\A w \in Senders :
       (confirmedWhileCallbackWaits(w) /\ pdone'.wa = w
          /\ pdone'.kind \in {"reminder", "reminder_await"}) =>
         /\ ~InSeq("reminder", pdone'.sent)
         /\ lastRow'[w] = lastRow[w]]_vars

\* The handler executions of the state-first revision that ran in the step:
\* the one that ended, or the one that stands at another await than before
ranInStep ==
  {t \in {Summary(tasks'[i]) : i \in 1..Len(tasks')} \cup {done'} :
     /\ t.kind \in {"text", "media"}
     /\ \/ t = done'
        \/ \E i \in 1..Len(tasks') :
             Summary(tasks'[i]) = t /\ \A j \in 1..Len(tasks) : tasks[j] # tasks'[i]}

\* The case of sender w is marked confirmed in the step: in the case store
\* or in a row of the cases tab of the state-first revision
firstMarksConfirmed(w) ==
  \/ /\ w \in DOMAIN caseStore'
     /\ Get(caseStore'[w].data, "status") = "confirmed"
     /\ statusOf(w) # "confirmed"
  \/ \E r \in DOMAIN sheetCases' :
       /\ sheetCases'[r].wa_from = w
       /\ sheetCases'[r].status = "confirmed"
       /\ r \in DOMAIN sheetCases => sheetCases[r] # sheetCases'[r]

\* A row with status confirmed is handed to the cases sheet of the prod-pack
\* revision for sender w in the step
prodMarksConfirmed(w) ==
  /\ w \in DOMAIN lastRow'
  /\ lastRow'[w].status = "confirmed"
  /\ w \in DOMAIN lastRow => lastRow'[w] # lastRow[w]

\* C35: a case row with status 'confirmed' is written only by a handler
\* invocation that read the sender's session in state awaiting_payment; no
\* message handled in another state marks a case confirmed.
C35_ConfirmedOnlyFromAwaitingPayment ==
  [][\A w \in Senders :
       /\ firstMarksConfirmed(w) =>
            \E t \in ranInStep : t.wa = w /\ t.s.state = "awaiting_payment"
       /\ prodMarksConfirmed(w) =>
            /\ pdone'.wa = w
            /\ pdone'.kind \in {"text", "media"}
            /\ pdone'.s.state = "awaiting_payment"]_vars

\* A case was marked confirmed by a handler that found awaiting_payment
C35_Witness ==
  /\ done.kind = "media"
  /\ done.s.state = "awaiting_payment"
  /\ statusOf(done.wa) = "confirmed"
  /\ "confirmed" \in writtenStatuses(done)

\* The context of a session of the state-first revision holds a created
\* payment link and the patient type, with the insurer's name and token when
\* the patient type is obra_social
firstContextComplete(ctx) ==
  /\ Get(ctx, "mpLink") = "init_point"
  /\ Get(ctx, "patientType") \in {"particular", "obra_social"}
  /\ Get(ctx, "patientType") = "obra_social" =>
       /\ Get(ctx, "osName") # Falsy("osName")
       /\ Get(ctx, "osToken") # Falsy("osToken")

\* The same of a session of the prod-pack revision
prodContextComplete(context) ==
  /\ context.mp = "ok"
  /\ context.patientType \in {"particular", "obra_social"}
  /\ context.patientType = "obra_social" =>
       /\ context.osName # <<>>
       /\ context.osToken # <<>>

\* C36 (state-first revision): a stored session in awaiting_payment holds in
\* its context a successfully created payment link and a patient type that
\* is particular or obra_social, with insurer name and token in the latter
\* case.
C36_FirstAwaitingPaymentHasLink ==
  \A w \in DOMAIN sessions :
    sessions[w].state = "awaiting_payment" => firstContextComplete(sessions[w].ctx)

\* C36: whenever a stored session is in state awaiting_payment, its context
\* holds a successfully created payment link and a patient type that is
\* particular or obra_social, with insurer name and token when it is
\* obra_social.
C36_AwaitingPaymentHasLink ==
  /\ C36_FirstAwaitingPaymentHasLink
  /\ \A w \in DOMAIN psessions :
       psessions[w].state = "awaiting_payment" => prodContextComplete(psessions[w].context)

\* C37: every accepted, non-duplicate inbound text message leads to at least
\* one outbound reply attempt by the end of its handling, in every session
\* state and whatever the outcomes of the ledger and payment calls.
C37_EveryTextIsAnswered ==
  done.kind = "text" => done.sent # <<>>

\* The sender had picked 'Otro' in the list of studies or of specialties and
\* the handler that ended in the last step got a free text of at least 3
\* characters that is no number of the list
freeTextAfterOtro ==
  /\ cdone.kind = "text"
  /\ cdone.s.state \in {"choose_study", "choose_specialty"}
  /\ cdone.s.intent = (IF cdone.s.state = "choose_study" THEN "study_other" ELSE "spec_other")
  /\ Len(normalize(cdone.text)) >= 3

\* The text of the last step was taken as the service label, the booking
\* link was sent and the session waits for the confirmation of the booking
acceptedAsLabel ==
  /\ cdone.sent = <<"mrturnoStep">>
  /\ cdone.wa \in DOMAIN csessions
  /\ csessions[cdone.wa].state = "waiting_reserved_confirmation"
  /\ csessions[cdone.wa].lastLabel =
       textLabel(IF cdone.s.state = "choose_study" THEN "Estudio" ELSE "Especialidad",
                 cdone.text)

\* C38: in handleTextMessage, after the user picks 'Otro' (study option 10
\* or specialty option 7), any free-text answer of at least 3 characters is
\* accepted as the service label, the booking link is sent, and the session
\* moves to waiting_reserved_confirmation.
C38_FreeTextAfterOtroIsAccepted ==
  freeTextAfterOtro => acceptedAsLabel

\* The ids of the appointments of a store
apptIds(appts) == {appts[i].id : i \in 1..Len(appts)}

\* The appointment with an id
apptById(appts, id) == appts[CHOOSE i \in 1..Len(appts) : appts[i].id = id]

\* The last exchange was a payment notification with status approved that
\* names the appointment id
approvedFor(h, id) ==
  /\ "route" \in DOMAIN h
  /\ h.route = "/api/mp/webhook"
  /\ h.payStatus = "approved"
  /\ h.appointmentId = id

\* C39: in the zero-dependency demo server every appointment is created
\* with status 'held' and payment_status 'unpaid'; status = 'confirmed'
\* exactly when payment_status = 'paid' in every reachable state; an
\* appointment becomes confirmed/paid only through a payment notification
\* with status 'approved' that names its id; and it never reverts to
\* held/unpaid.
C39_AppointmentPaidOnlyByApproval ==
  /\ [](\A i \in 1..Len(appointments) :
          /\ appointments[i].status \in {"held", "confirmed"}
          /\ appointments[i].payment_status \in {"unpaid", "paid"}
          /\ appointments[i].status = "confirmed" <=> appointments[i].payment_status = "paid")
  /\ [][/\ \A id \in apptIds(appointments') \ apptIds(appointments) :
             /\ apptById(appointments', id).status = "held"
             /\ apptById(appointments', id).payment_status = "unpaid"
        /\ \A id \in apptIds(appointments) :
             /\ id \in apptIds(appointments')
             /\ apptById(appointments, id).payment_status = "paid" =>
                  apptById(appointments', id).payment_status = "paid"
             /\ (/\ apptById(appointments, id).payment_status = "unpaid"
                 /\ apptById(appointments', id).payment_status = "paid") =>
                  approvedFor(hdone', id)]_vars

\* Of two appointments the older one was just paid by a notification that
\* names it, and the newer one is still held
C39_Witness ==
  /\ Len(appointments) = 2
  /\ approvedFor(hdone, 1)
  /\ apptById(appointments, 1).status = "confirmed"
  /\ apptById(appointments, 1).payment_status = "paid"
  /\ apptById(appointments, 2).status = "held"
  /\ apptById(appointments, 2).payment_status = "unpaid"

=============================================================================
